---- MODULE Spec2Model ----
(***************************************************************************)
(* The persistence layer of sora2api (src/core/database.py, class          *)
(* Database): the tables and the operations on them, the connection pool *)
(* and the schema migration.  A table is a function from the key of its    *)
(* rows to the rows; a nullable column holds NULL (the empty tuple) or     *)
(* Some(v).  Time is one integer clock read by CURRENT_TIMESTAMP,          *)
(* datetime.now() and date.today() alike; a calendar day is DayLen ticks   *)
(* long.                                                                   *)
(***************************************************************************)
EXTENDS Integers, Sequences, FiniteSets, TLC

\* Bounds of the model.
MaxTokens == 2      \* rows the tokens id sequence may hand out
MaxTime == 3        \* last tick of the clock
DayLen == 2         \* ticks per calendar day
MaxCalls == 3       \* counter increments per model run (sequential specs)
NumProcs == 2       \* concurrent callers (SpecRace)
MaxUses == 2        \* update_token_usage calls per model run (SpecActive)
MaxTasks == 1       \* rows the tasks id sequence may hand out
MaxLogs == 1        \* rows the request_logs id sequence may hand out
MaxPools == 2       \* pools asyncpg creates per model run
MaxMissing == 2     \* migrated columns the starting schema lacks
MaxConfigWrites == 1    \* config update calls per model run

VARIABLES
    tokens,         \* table tokens: id -> row
    token_stats,    \* table token_stats: token_id -> row
    tokens_id_seq,  \* next value of the SERIAL column tokens.id
    now,            \* the clock
    lastOp,         \* the operation that made the last step, with the row it found
    calls,          \* SpecRace: each concurrent caller's position and locals
    tasks,          \* table tasks: id -> row
    tasks_id_seq,   \* next value of the SERIAL column tasks.id
    request_logs,   \* table request_logs: id -> row
    request_logs_id_seq,    \* next value of the SERIAL column request_logs.id
    pool,           \* self._pool: NULL or Some(index into pools)
    pools,          \* the pools asyncpg has created, each with its status
    pool_calls,     \* each caller of get_pool / close: position and locals
    columns,        \* the columns the tables have: <<table, column>> pairs
    config_rows,    \* the config tables that hold their row
    mig,            \* check_and_migrate_db: position and locals of the run
    config,         \* the config tables' rows: table -> its row with id 1
    config_writes,  \* config update calls made so far
    probe           \* the last catalog probe: the call and how it ended

refVars == <<tasks, tasks_id_seq, request_logs, request_logs_id_seq>>
poolVars == <<pool, pools, pool_calls>>
schemaVars == <<columns, config_rows, mig, config, config_writes, probe>>

\* What the operations on tokens and token_stats leave alone.
otherVars == <<refVars, poolVars, schemaVars>>

vars == <<tokens, token_stats, tokens_id_seq, now, lastOp, calls, otherVars>>

----------------------------------------------------------------------------
\* Values

NULL == <<>>
Some(v) == <<v>>

Ids == 1..MaxTokens
Procs == 1..NumProcs

\* date.today(): the calendar day of the clock.
DateOf(t) == t \div DayLen
Today == DateOf(now)

\* fetchrow(): the row under `key`, or None.
FetchRow(table, key) == IF key \in DOMAIN table THEN Some(table[key]) ELSE NULL

\* UPDATE table SET ... WHERE key = $n: the row under `key` becomes `row`;
\* no row, no change.
UpdateRow(table, key, row) ==
    IF key \in DOMAIN table THEN [table EXCEPT ![key] = row] ELSE table

\* DELETE FROM table WHERE key = $n.
DeleteRow(table, key) == [k \in DOMAIN table \ {key} |-> table[k]]

\* A call as its caller saw it: the method, its id and argument, whether it
\* returned or raised, the row it found and, for a query, the rows it may
\* return.
OpRet(name, id, arg, outcome, pre, ret) ==
    [op |-> name, id |-> id, arg |-> arg, outcome |-> outcome, pre |-> pre,
     ret |-> ret]

Op(name, id, arg, outcome, pre) == OpRet(name, id, arg, outcome, pre, NULL)

----------------------------------------------------------------------------
\* token_stats: the columns and their defaults, as add_token inserts them.

NewStatsRow ==
    [ image_count |-> 0, video_count |-> 0, error_count |-> 0,
      last_error_at |-> NULL,
      today_image_count |-> 0, today_video_count |-> 0, today_error_count |-> 0,
      today_date |-> NULL,
      consecutive_error_count |-> 0 ]

\* "if row and row['today_date'] != date.today()"
DateChanged(row, today) == row # NULL /\ row[1].today_date # Some(today)

\* A rollover that adds to the stale today counter.
ImageRolloverKeepsStale(table, token_id, d) ==
    IF token_id \in DOMAIN table
    THEN UpdateRow(table, token_id,
            [table[token_id] EXCEPT !.image_count = @ + 1,
                                    !.today_image_count = @ + 1,
                                    !.today_date = Some(d)])
    ELSE table

\* increment_image_count: the UPDATE of the date-changed branch ...
ImageRolloverUpdate(table, token_id, d) ==
    IF token_id \in DOMAIN table
    THEN UpdateRow(table, token_id,
            [table[token_id] EXCEPT !.image_count = @ + 1,
                                    !.today_image_count = 1,
                                    !.today_date = Some(d)])
    ELSE table

\* A same-day branch that counts the day's first image only.
ImageSameDayCountsFirst(table, token_id, d) ==
    IF token_id \in DOMAIN table
    THEN UpdateRow(table, token_id,
            [table[token_id] EXCEPT !.image_count = @ + 1,
                                    !.today_image_count = IF @ = 0 THEN 1 ELSE @,
                                    !.today_date = Some(d)])
    ELSE table

\* ... and of the same-day branch.
ImageSameDayUpdate(table, token_id, d) ==
    IF token_id \in DOMAIN table
    THEN UpdateRow(table, token_id,
            [table[token_id] EXCEPT !.image_count = @ + 1,
                                    !.today_image_count = @ + 1,
                                    !.today_date = Some(d)])
    ELSE table

\* A rollover that restarts the lifetime counter with the day's.
VideoRolloverResetsLifetime(table, token_id, d) ==
    IF token_id \in DOMAIN table
    THEN UpdateRow(table, token_id,
            [table[token_id] EXCEPT !.video_count = 1,
                                    !.today_video_count = 1,
                                    !.today_date = Some(d)])
    ELSE table

VideoRolloverUpdate(table, token_id, d) ==
    IF token_id \in DOMAIN table
    THEN UpdateRow(table, token_id,
            [table[token_id] EXCEPT !.video_count = @ + 1,
                                    !.today_video_count = 1,
                                    !.today_date = Some(d)])
    ELSE table

\* A same-day branch that counts the video for the day only.
VideoSameDayTodayOnly(table, token_id, d) ==
    IF token_id \in DOMAIN table
    THEN UpdateRow(table, token_id,
            [table[token_id] EXCEPT !.today_video_count = @ + 1,
                                    !.today_date = Some(d)])
    ELSE table

VideoSameDayUpdate(table, token_id, d) ==
    IF token_id \in DOMAIN table
    THEN UpdateRow(table, token_id,
            [table[token_id] EXCEPT !.video_count = @ + 1,
                                    !.today_video_count = @ + 1,
                                    !.today_date = Some(d)])
    ELSE table

\* A rollover error update that starts the streak over with the day.
ErrorRolloverRestartsStreak(table, token_id, increment_consecutive, d, ts) ==
    IF token_id \in DOMAIN table
    THEN UpdateRow(table, token_id,
            [table[token_id] EXCEPT
                !.error_count = @ + 1,
                !.consecutive_error_count =
                    IF increment_consecutive THEN 1 ELSE 0,
                !.today_error_count = 1,
                !.today_date = Some(d),
                !.last_error_at = Some(ts)])
    ELSE table

\* increment_error_count: its four UPDATEs.  `ts` is CURRENT_TIMESTAMP when
\* the statement runs, `d` the date.today() the caller passed.
ErrorRolloverUpdate(table, token_id, increment_consecutive, d, ts) ==
    IF token_id \in DOMAIN table
    THEN UpdateRow(table, token_id,
            [table[token_id] EXCEPT
                !.error_count = @ + 1,
                !.consecutive_error_count =
                    IF increment_consecutive THEN @ + 1 ELSE @,
                !.today_error_count = 1,
                !.today_date = Some(d),
                !.last_error_at = Some(ts)])
    ELSE table

\* A same-day error update that counts every error toward the streak.
ErrorSameDayAlwaysStreak(table, token_id, increment_consecutive, d, ts) ==
    IF token_id \in DOMAIN table
    THEN UpdateRow(table, token_id,
            [table[token_id] EXCEPT
                !.error_count = @ + 1,
                !.consecutive_error_count = @ + 1,
                !.today_error_count = @ + 1,
                !.today_date = Some(d),
                !.last_error_at = Some(ts)])
    ELSE table

ErrorSameDayUpdate(table, token_id, increment_consecutive, d, ts) ==
    IF token_id \in DOMAIN table
    THEN UpdateRow(table, token_id,
            [table[token_id] EXCEPT
                !.error_count = @ + 1,
                !.consecutive_error_count =
                    IF increment_consecutive THEN @ + 1 ELSE @,
                !.today_error_count = @ + 1,
                !.today_date = Some(d),
                !.last_error_at = Some(ts)])
    ELSE table

\* A reset that clears the day's error counter with the streak.
ResetErrorClearsToday(table, token_id) ==
    IF token_id \in DOMAIN table
    THEN UpdateRow(table, token_id,
            [table[token_id] EXCEPT !.consecutive_error_count = 0,
                                    !.today_error_count = 0])
    ELSE table

\* reset_error_count: UPDATE token_stats SET consecutive_error_count = 0.
ResetErrorUpdate(table, token_id) ==
    IF token_id \in DOMAIN table
    THEN UpdateRow(table, token_id,
            [table[token_id] EXCEPT !.consecutive_error_count = 0])
    ELSE table

\* The statement a counter increment issues, given the row it fetched.
CounterUpdate(table, op, token_id, inc, rollover, d, ts) ==
    CASE op = "increment_image_count" ->
            IF rollover THEN ImageRolloverUpdate(table, token_id, d)
                        ELSE ImageSameDayUpdate(table, token_id, d)
      [] op = "increment_video_count" ->
            IF rollover THEN VideoRolloverUpdate(table, token_id, d)
                        ELSE VideoSameDayUpdate(table, token_id, d)
      [] op = "increment_error_count" ->
            IF rollover
            THEN ErrorRolloverUpdate(table, token_id, inc, d, ts)
            ELSE ErrorSameDayUpdate(table, token_id, inc, d, ts)

\* Increments the rows of the table have taken so far (the bound of the
\* sequential specifications is on this sum).
RECURSIVE SumOver(_, _)
SumOver(f, S) ==
    IF S = {} THEN 0
    ELSE LET k == CHOOSE x \in S : TRUE
         IN f[k] + SumOver(f, S \ {k})

Lifetime(row) == row.image_count + row.video_count + row.error_count

CallsMade ==
    SumOver([k \in DOMAIN token_stats |-> Lifetime(token_stats[k])],
            DOMAIN token_stats)

----------------------------------------------------------------------------
\* tokens: the row add_token inserts for the Token object `t`.  Columns the
\* INSERT does not name take the defaults of CREATE TABLE tokens.

InsertTokenRow(t, id, ts) ==
    [ id |-> id, token |-> t.token, email |-> t.email, username |-> "",
      name |-> t.name, st |-> t.st, rt |-> t.rt, client_id |-> t.client_id,
      proxy_url |-> t.proxy_url, remark |-> t.remark,
      expiry_time |-> t.expiry_time, is_active |-> t.is_active,
      cooled_until |-> NULL, created_at |-> Some(ts), last_used_at |-> NULL,
      use_count |-> 0,
      plan_type |-> t.plan_type, plan_title |-> t.plan_title,
      subscription_end |-> t.subscription_end,
      sora2_supported |-> t.sora2_supported,
      sora2_invite_code |-> t.sora2_invite_code,
      sora2_redeemed_count |-> t.sora2_redeemed_count,
      sora2_total_count |-> t.sora2_total_count,
      sora2_remaining_count |-> t.sora2_remaining_count,
      sora2_cooldown_until |-> t.sora2_cooldown_until,
      image_enabled |-> t.image_enabled, video_enabled |-> t.video_enabled,
      image_concurrency |-> t.image_concurrency,
      video_concurrency |-> t.video_concurrency,
      is_expired |-> FALSE ]

\* A tokens table without the UNIQUE constraint: no value counts as taken.
TokenValueNeverTaken(table, value, except) == FALSE

\* token TEXT UNIQUE NOT NULL: the INSERT raises when the value is taken.
TokenValueTaken(table, value, except) ==
    \E k \in DOMAIN table \ except : table[k].token = value

\* A Token object as callers build it: the fields the model's inputs vary,
\* the rest at the values of a freshly imported credential.
TokenInput(value, expiry_time, is_active) ==
    [ token |-> value, email |-> "e", name |-> "n", st |-> NULL, rt |-> NULL,
      client_id |-> NULL, proxy_url |-> NULL, remark |-> NULL,
      expiry_time |-> expiry_time, is_active |-> is_active,
      plan_type |-> NULL, plan_title |-> NULL, subscription_end |-> NULL,
      sora2_supported |-> NULL, sora2_invite_code |-> NULL,
      sora2_redeemed_count |-> 0, sora2_total_count |-> 0,
      sora2_remaining_count |-> 0, sora2_cooldown_until |-> NULL,
      image_enabled |-> TRUE, video_enabled |-> TRUE,
      image_concurrency |-> 0 - 1, video_concurrency |-> 0 - 1 ]

\* The secrets the model's credentials carry, named by number.
TokenValues == Ids

\* The statement of add_token that raises, if one does: a statement fails
\* when the database does (a timeout, a lost connection), whatever its text.
AddTokenFaults == {"none", "tokens", "token_stats"}

\* add_token: INSERT INTO tokens ... RETURNING id, then INSERT INTO
\* token_stats (token_id), each statement committed on its own.
add_token(t, fault) ==
    /\ tokens_id_seq <= MaxTokens
    /\ LET id == tokens_id_seq
           dup == TokenValueTaken(tokens, t.token, {})
       IN  IF fault = "tokens"
           THEN /\ UNCHANGED <<tokens, token_stats, tokens_id_seq>>
                /\ lastOp' = Op("add_token", id, Some(t.token), "raised", NULL)
           ELSE IF dup
           THEN \* the sequence value is spent on the rejected row
                /\ tokens_id_seq' = id + 1
                /\ UNCHANGED <<tokens, token_stats>>
                /\ lastOp' = Op("add_token", id, Some(t.token), "raised", NULL)
           ELSE /\ tokens_id_seq' = id + 1
                /\ tokens' = tokens @@ (id :> InsertTokenRow(t, id, now))
                /\ IF fault = "token_stats"
                   THEN /\ UNCHANGED token_stats
                        /\ lastOp' = Op("add_token", id, Some(t.token),
                                        "raised", NULL)
                   ELSE /\ token_stats' = token_stats @@ (id :> NewStatsRow)
                        /\ lastOp' = Op("add_token", id, Some(t.token),
                                        "returned", NULL)
    /\ UNCHANGED <<now, calls, otherVars>>

----------------------------------------------------------------------------
\* The counter operations, one call at a time.

increment_image_count(token_id) ==
    /\ CallsMade < MaxCalls
    /\ LET row == FetchRow(token_stats, token_id)
       IN  /\ token_stats' = CounterUpdate(token_stats, "increment_image_count",
                                token_id, FALSE, DateChanged(row, Today),
                                Today, now)
           /\ lastOp' = Op("increment_image_count", token_id, NULL,
                           "returned", row)
    /\ UNCHANGED <<tokens, tokens_id_seq, now, calls, otherVars>>

increment_video_count(token_id) ==
    /\ CallsMade < MaxCalls
    /\ LET row == FetchRow(token_stats, token_id)
       IN  /\ token_stats' = CounterUpdate(token_stats, "increment_video_count",
                                token_id, FALSE, DateChanged(row, Today),
                                Today, now)
           /\ lastOp' = Op("increment_video_count", token_id, NULL,
                           "returned", row)
    /\ UNCHANGED <<tokens, tokens_id_seq, now, calls, otherVars>>

increment_error_count(token_id, increment_consecutive) ==
    /\ CallsMade < MaxCalls
    /\ LET row == FetchRow(token_stats, token_id)
       IN  /\ token_stats' = CounterUpdate(token_stats, "increment_error_count",
                                token_id, increment_consecutive,
                                DateChanged(row, Today), Today, now)
           /\ lastOp' = Op("increment_error_count", token_id,
                           Some(increment_consecutive), "returned", row)
    /\ UNCHANGED <<tokens, tokens_id_seq, now, calls, otherVars>>

reset_error_count(token_id) ==
    /\ token_stats' = ResetErrorUpdate(token_stats, token_id)
    /\ lastOp' = Op("reset_error_count", token_id, NULL, "returned",
                    FetchRow(token_stats, token_id))
    /\ UNCHANGED <<tokens, tokens_id_seq, now, calls, otherVars>>

\* Time passes, up to `limit`.
TickTo(limit) ==
    /\ now < limit
    /\ now' = now + 1
    /\ lastOp' = Op("tick", 0, NULL, "returned", NULL)
    /\ UNCHANGED <<tokens, token_stats, tokens_id_seq, calls, otherVars>>

\* The clock of the listing runs to MaxTime; the counters see day 0 and the
\* first tick of day 1.
Tick == TickTo(MaxTime)
DayTick == TickTo(DayLen)

----------------------------------------------------------------------------
\* The connection pool and the schema as the other operations find them.

\* get_pool: max_retries and retry_delay.
max_retries == 5
retry_delay == 2

\* A caller of get_pool or close that has not called yet.
IdlePoolCall ==
    [pc |-> "idle", op |-> "", attempt |-> 0, attempts |-> 0, waits |-> <<>>,
     found |-> NULL, ret |-> NULL]

\* check_and_migrate_db: the tables it migrates, in the order of its loops,
\* and the columns_to_add of each.
MigrationTables ==
    <<"tokens", "token_stats", "admin_config", "watermark_free_config",
      "request_logs", "tasks">>

ColumnsToAdd(table) ==
    CASE table = "tokens" ->
            <<"sora2_supported", "sora2_invite_code", "sora2_redeemed_count",
              "sora2_total_count", "sora2_remaining_count",
              "sora2_cooldown_until", "image_enabled", "video_enabled",
              "image_concurrency", "video_concurrency", "client_id",
              "proxy_url", "is_expired">>
      [] table = "token_stats" -> <<"consecutive_error_count">>
      [] table = "admin_config" ->
            <<"admin_username", "admin_password", "api_key",
              "task_retry_enabled", "task_max_retries", "auto_disable_on_401">>
      [] table = "watermark_free_config" ->
            <<"parse_method", "custom_parse_url", "custom_parse_token",
              "fallback_on_failure">>
      [] table = "request_logs" -> <<"task_id", "updated_at">>
      [] table = "tasks" -> <<"retry_count">>

\* _ensure_config_rows: the config tables in the order it visits them, and
\* the columns its INSERT into each names.
ConfigTables ==
    <<"admin_config", "proxy_config", "watermark_free_config", "cache_config",
      "generation_config", "token_refresh_config", "call_logic_config",
      "pow_proxy_config">>

InsertColumns(table) ==
    CASE table = "admin_config" ->
            {"id", "admin_username", "admin_password", "api_key",
             "error_ban_threshold", "task_retry_enabled", "task_max_retries",
             "auto_disable_on_401"}
      [] table = "proxy_config" -> {"id", "proxy_enabled", "proxy_url"}
      [] table = "watermark_free_config" ->
            {"id", "watermark_free_enabled", "parse_method",
             "custom_parse_url", "custom_parse_token", "fallback_on_failure"}
      [] table = "cache_config" ->
            {"id", "cache_enabled", "cache_timeout", "cache_base_url"}
      [] table = "generation_config" ->
            {"id", "image_timeout", "video_timeout"}
      [] table = "token_refresh_config" -> {"id", "at_auto_refresh_enabled"}
      [] table = "call_logic_config" ->
            {"id", "call_mode", "polling_mode_enabled"}
      [] table = "pow_proxy_config" ->
            {"id", "pow_proxy_enabled", "pow_proxy_url"}

Range(s) == {s[i] : i \in DOMAIN s}

\* The columns the migration adds when they are missing.
MigratedColumns ==
    UNION {{<<t, c>> : c \in Range(ColumnsToAdd(t))} :
              t \in Range(MigrationTables)}

\* The columns of the schema init_db creates that the model follows: the
\* migrated ones and those the config INSERTs name.
AllColumns ==
    MigratedColumns
      \cup UNION {{<<t, c>> : c \in InsertColumns(t)} : t \in Range(ConfigTables)}

\* dict.get(key, default).  A dict is a function from its keys; None and the
\* empty dict are both <<>>, and "if config_dict:" takes neither.
Get(d, key, default) == IF key \in DOMAIN d THEN d[key] ELSE default

\* "x if x else None" on a string handed over by the overrides.
EmptyToNone(s) == IF s = "" THEN NULL ELSE Some(s)

\* A call_logic block that inserts the two settings as the overrides carry
\* them, without deriving one from the other.
CallLogicValuesAsGiven(config_dict) ==
    LET call_logic_config == Get(config_dict, "call_logic", <<>>)
    IN  [call_mode |-> Get(call_logic_config, "call_mode", "default"),
         polling_mode_enabled |->
             Get(call_logic_config, "polling_mode_enabled", FALSE)]

\* The call_logic block of _ensure_config_rows: call_mode and
\* polling_mode_enabled as it inserts them.
CallLogicValues(config_dict) ==
    IF config_dict # NULL
    THEN LET call_logic_config == Get(config_dict, "call_logic", <<>>)
             call_mode == Get(call_logic_config, "call_mode", "default")
         IN  IF call_mode \notin {"default", "polling"}
             THEN LET polling_mode_enabled ==
                          Get(call_logic_config, "polling_mode_enabled", FALSE)
                  IN  [call_mode |-> IF polling_mode_enabled THEN "polling"
                                     ELSE "default",
                       polling_mode_enabled |-> polling_mode_enabled]
             ELSE [call_mode |-> call_mode,
                   polling_mode_enabled |-> (call_mode = "polling")]
    ELSE [call_mode |-> "default", polling_mode_enabled |-> FALSE]

\* _ensure_config_rows: the row it inserts into `table` when the table is
\* empty, from the hard-coded defaults or, given overrides, from those; the
\* timestamp columns take CURRENT_TIMESTAMP, `ts`.
BootstrapRow(table, config_dict, ts) ==
    CASE table = "admin_config" ->
            LET global_config == Get(config_dict, "global", <<>>)
                admin_config == Get(config_dict, "admin", <<>>)
            IN  [id |-> 1,
                 admin_username |-> Get(global_config, "admin_username", "admin"),
                 admin_password |-> Get(global_config, "admin_password", "admin"),
                 api_key |-> Get(global_config, "api_key", "han1234"),
                 error_ban_threshold |-> Get(admin_config, "error_ban_threshold", 3),
                 task_retry_enabled |-> Get(admin_config, "task_retry_enabled", TRUE),
                 task_max_retries |-> Get(admin_config, "task_max_retries", 3),
                 auto_disable_on_401 |-> Get(admin_config, "auto_disable_on_401", TRUE),
                 updated_at |-> Some(ts)]
      [] table = "proxy_config" ->
            LET proxy_config == Get(config_dict, "proxy", <<>>)
            IN  [id |-> 1,
                 proxy_enabled |-> Get(proxy_config, "proxy_enabled", FALSE),
                 proxy_url |-> EmptyToNone(Get(proxy_config, "proxy_url", "")),
                 created_at |-> Some(ts), updated_at |-> Some(ts)]
      [] table = "watermark_free_config" ->
            LET watermark_config == Get(config_dict, "watermark_free", <<>>)
            IN  [id |-> 1,
                 watermark_free_enabled |->
                     Get(watermark_config, "watermark_free_enabled", FALSE),
                 parse_method |-> Get(watermark_config, "parse_method", "third_party"),
                 custom_parse_url |->
                     EmptyToNone(Get(watermark_config, "custom_parse_url", "")),
                 custom_parse_token |->
                     EmptyToNone(Get(watermark_config, "custom_parse_token", "")),
                 fallback_on_failure |->
                     Get(watermark_config, "fallback_on_failure", TRUE),
                 created_at |-> Some(ts), updated_at |-> Some(ts)]
      [] table = "cache_config" ->
            LET cache_config == Get(config_dict, "cache", <<>>)
            IN  [id |-> 1,
                 cache_enabled |-> Get(cache_config, "enabled", FALSE),
                 cache_timeout |-> Get(cache_config, "timeout", 600),
                 cache_base_url |-> EmptyToNone(Get(cache_config, "base_url", "")),
                 created_at |-> Some(ts), updated_at |-> Some(ts)]
      [] table = "generation_config" ->
            LET generation_config == Get(config_dict, "generation", <<>>)
            IN  [id |-> 1,
                 image_timeout |-> Get(generation_config, "image_timeout", 300),
                 video_timeout |-> Get(generation_config, "video_timeout", 3000),
                 created_at |-> Some(ts), updated_at |-> Some(ts)]
      [] table = "token_refresh_config" ->
            LET token_refresh_config == Get(config_dict, "token_refresh", <<>>)
            IN  [id |-> 1,
                 at_auto_refresh_enabled |->
                     Get(token_refresh_config, "at_auto_refresh_enabled", FALSE),
                 created_at |-> Some(ts), updated_at |-> Some(ts)]
      [] table = "call_logic_config" ->
            LET v == CallLogicValues(config_dict)
            IN  [id |-> 1,
                 call_mode |-> v.call_mode,
                 polling_mode_enabled |-> v.polling_mode_enabled,
                 created_at |-> Some(ts), updated_at |-> Some(ts)]
      [] table = "pow_proxy_config" ->
            LET pow_proxy_config == Get(config_dict, "pow_proxy", <<>>)
            IN  [id |-> 1,
                 pow_proxy_enabled |-> Get(pow_proxy_config, "pow_proxy_enabled", FALSE),
                 pow_proxy_url |->
                     EmptyToNone(Get(pow_proxy_config, "pow_proxy_url", "")),
                 created_at |-> Some(ts), updated_at |-> Some(ts)]

\* The row _ensure_config_rows inserts when it is given no overrides.
DefaultRow(table) == BootstrapRow(table, NULL, 0)

\* The config rows of a database whose tables in `tables` hold their
\* default row and whose other config tables are empty.
DefaultRows(tables) == [t \in tables |-> DefaultRow(t)]

\* No catalog probe made yet.
NoProbe ==
    [op |-> "", table |-> "", column |-> "", fault |-> FALSE,
     outcome |-> "none", ret |-> FALSE]

\* No run of check_and_migrate_db under way, none completed.
IdleMigration ==
    [pc |-> 0, probed |-> 0, attempted |-> <<>>, failed |-> {},
     outcome |-> "none", prev |-> NULL]

\* The state the operations on tokens and token_stats run in: no task and no
\* log yet, the pool created and cached, the schema that of init_db with
\* every config row in place.
OtherInit ==
    /\ tasks = <<>>
    /\ tasks_id_seq = 1
    /\ request_logs = <<>>
    /\ request_logs_id_seq = 1
    /\ pool = Some(1)
    /\ pools = <<"open">>
    /\ pool_calls = [p \in Procs |-> IdlePoolCall]
    /\ columns = AllColumns
    /\ config_rows = Range(ConfigTables)
    /\ mig = IdleMigration
    /\ config = DefaultRows(config_rows)
    /\ config_writes = 0
    /\ probe = NoProbe

----------------------------------------------------------------------------
\* The state after init_db on an empty database: no rows, the id sequence
\* at its first value.

IdleCall ==
    [pc |-> "idle", op |-> "", id |-> 0, inc |-> FALSE, row |-> NULL,
     d |-> 0, rollover |-> FALSE]

Init ==
    /\ tokens = <<>>
    /\ token_stats = <<>>
    /\ tokens_id_seq = 1
    /\ now = 0
    /\ lastOp = Op("init", 0, NULL, "returned", NULL)
    /\ calls = [p \in Procs |-> IdleCall]
    /\ OtherInit

\* A database holding MaxTokens credentials, each added by add_token at the
\* start of the clock and not used since.
SeededTokens ==
    [id \in Ids |-> InsertTokenRow(TokenInput(id, NULL, TRUE), id, 0)]

InitStats ==
    /\ tokens = SeededTokens
    /\ token_stats = [id \in Ids |-> NewStatsRow]
    /\ tokens_id_seq = MaxTokens + 1
    /\ now = 0
    /\ lastOp = Op("init", 0, NULL, "returned", NULL)
    /\ calls = [p \in Procs |-> IdleCall]
    /\ OtherInit

\* The credential ids callers pass: the rows' and one that has no row.
AnyId == 1..(MaxTokens + 1)

NextStats ==
    \/ \E id \in AnyId : increment_image_count(id)
    \/ \E id \in AnyId : increment_video_count(id)
    \/ \E id \in AnyId, inc \in BOOLEAN : increment_error_count(id, inc)
    \/ \E id \in AnyId : reset_error_count(id)
    \/ DayTick

SpecStats == InitStats /\ [][NextStats]_vars

----------------------------------------------------------------------------
\* Properties of the counter operations (SpecStats).

\* The stats row the last operation found, and the one it left.
PreStats == lastOp.pre[1]
PostStats == token_stats[lastOp.id]
LastOpOnRow(names) == lastOp.op \in names /\ lastOp.pre # NULL

\* The lifetime and the today counter a counter operation keeps.
LifetimeOf(op, row) ==
    CASE op = "increment_image_count" -> row.image_count
      [] op = "increment_video_count" -> row.video_count
      [] op = "increment_error_count" -> row.error_count

TodayOf(op, row) ==
    CASE op = "increment_image_count" -> row.today_image_count
      [] op = "increment_video_count" -> row.today_video_count
      [] op = "increment_error_count" -> row.today_error_count

IncrementOps ==
    {"increment_image_count", "increment_video_count", "increment_error_count"}

\* C1: a counter increment that does not overlap another one sets its today
\* counter to exactly 1 and today_date to the current date when the stored
\* today_date differs from the current date, adds exactly 1 to the today
\* counter otherwise, and adds exactly 1 to the lifetime counter either way.
C1_DayRollover ==
    LastOpOnRow(IncrementOps) =>
        /\ LifetimeOf(lastOp.op, PostStats) = LifetimeOf(lastOp.op, PreStats) + 1
        /\ PostStats.today_date = Some(Today)
        /\ IF PreStats.today_date # Some(Today)
           THEN TodayOf(lastOp.op, PostStats) = 1
           ELSE TodayOf(lastOp.op, PostStats) = TodayOf(lastOp.op, PreStats) + 1

\* C1's case: an image increment on the day after a day that counted two.
C1_Witness ==
    /\ LastOpOnRow({"increment_image_count"})
    /\ Today > 0
    /\ PreStats.today_date = Some(Today - 1)
    /\ PreStats.today_image_count = 2
    /\ PostStats.today_image_count = 1
    /\ PostStats.image_count = 3

\* C4: increment_error_count adds exactly 1 to error_count, sets
\* last_error_at to now, resets today_error_count to 1 on a date change and
\* adds 1 to it otherwise, adds 1 to consecutive_error_count if and only if
\* increment_consecutive is true, and leaves the image and video counters.
C4_ErrorIncrement ==
    LastOpOnRow({"increment_error_count"}) =>
        /\ PostStats.error_count = PreStats.error_count + 1
        /\ PostStats.last_error_at = Some(now)
        /\ PostStats.today_error_count =
              IF PreStats.today_date # Some(Today) THEN 1
              ELSE PreStats.today_error_count + 1
        /\ PostStats.consecutive_error_count =
              IF lastOp.arg = Some(TRUE)
              THEN PreStats.consecutive_error_count + 1
              ELSE PreStats.consecutive_error_count
        /\ PostStats.image_count = PreStats.image_count
        /\ PostStats.video_count = PreStats.video_count
        /\ PostStats.today_image_count = PreStats.today_image_count
        /\ PostStats.today_video_count = PreStats.today_video_count

\* C4's case: the third error of a day, counted toward the streak after two
\* that were not.
C4_Witness ==
    /\ LastOpOnRow({"increment_error_count"})
    /\ lastOp.arg = Some(TRUE)
    /\ PreStats.today_date = Some(Today)
    /\ PreStats.today_error_count = 2
    /\ PreStats.consecutive_error_count = 0
    /\ PostStats.today_error_count = 3
    /\ PostStats.consecutive_error_count = 1
    /\ PostStats.error_count = 3

\* C5: reset_error_count sets consecutive_error_count of its credential to 0
\* and changes no other column of that row and no other credential's row.
C5_ResetFrame ==
    [][lastOp'.op = "reset_error_count" =>
        /\ DOMAIN token_stats' = DOMAIN token_stats
        /\ \A k \in DOMAIN token_stats :
              token_stats'[k] =
                 IF k = lastOp'.id
                 THEN [token_stats[k] EXCEPT !.consecutive_error_count = 0]
                 ELSE token_stats[k]
        /\ \A k \in DOMAIN token_stats :
              k = lastOp'.id => token_stats'[k].consecutive_error_count = 0
      ]_vars

\* C5's case: a reset that breaks a streak of two errors, with another
\* credential's row holding counts of its own.
C5_Witness ==
    /\ LastOpOnRow({"reset_error_count"})
    /\ PreStats.consecutive_error_count = 2
    /\ PreStats.error_count = 2
    /\ PostStats.consecutive_error_count = 0
    /\ PostStats.error_count = 2
    /\ PostStats.today_error_count = 2
    /\ \E k \in DOMAIN token_stats : k # lastOp.id /\ token_stats[k].error_count = 1

----------------------------------------------------------------------------
\* Concurrent callers (SpecRace).  A counter increment is three steps with
\* an await between them: the SELECT of today_date, the comparison with
\* date.today() that picks the UPDATE and its date parameter, and the UPDATE
\* running in the database.  Each caller makes one call.

\* A row whose last increments were made on day 0: seven images, two errors.
UsedStatsRow ==
    [ image_count |-> 7, video_count |-> 0, error_count |-> 2,
      last_error_at |-> Some(0),
      today_image_count |-> 7, today_video_count |-> 0, today_error_count |-> 2,
      today_date |-> Some(0),
      consecutive_error_count |-> 2 ]

\* Credential 1 has been used on day 0, the others never.
RaceSeed == [id \in Ids |-> IF id = 1 THEN UsedStatsRow ELSE NewStatsRow]

InitRace ==
    /\ tokens = SeededTokens
    /\ token_stats = RaceSeed
    /\ tokens_id_seq = MaxTokens + 1
    /\ now = 0
    /\ lastOp = Op("init", 0, NULL, "returned", NULL)
    /\ calls = [p \in Procs |-> IdleCall]
    /\ OtherInit

\* row = await conn.fetchrow("SELECT today_date FROM token_stats WHERE ...")
FetchTodayDate(p, op, token_id, inc) ==
    /\ calls[p].pc = "idle"
    /\ \A q \in Procs : q < p => calls[q].pc # "idle"
    /\ calls' = [calls EXCEPT ![p] =
                    [@ EXCEPT !.pc = "fetched", !.op = op, !.id = token_id,
                              !.inc = inc,
                              !.row = FetchRow(token_stats, token_id)]]
    /\ UNCHANGED <<tokens, token_stats, tokens_id_seq, now, lastOp, otherVars>>

\* if row and row['today_date'] != date.today(): ... execute(..., date.today(), token_id)
CompareDate(p) ==
    /\ calls[p].pc = "fetched"
    /\ calls' = [calls EXCEPT ![p] =
                    [@ EXCEPT !.pc = "decided",
                              !.rollover = DateChanged(calls[p].row, Today),
                              !.d = Today]]
    /\ UNCHANGED <<tokens, token_stats, tokens_id_seq, now, lastOp, otherVars>>

\* The UPDATE runs.
ExecuteUpdate(p) ==
    /\ calls[p].pc = "decided"
    /\ token_stats' = CounterUpdate(token_stats, calls[p].op, calls[p].id,
                                    calls[p].inc, calls[p].rollover,
                                    calls[p].d, now)
    /\ calls' = [calls EXCEPT ![p] = [@ EXCEPT !.pc = "done"]]
    /\ UNCHANGED <<tokens, tokens_id_seq, now, lastOp, otherVars>>

NextRace ==
    \/ \E p \in Procs, id \in Ids :
          FetchTodayDate(p, "increment_image_count", id, FALSE)
    \/ \E p \in Procs, id \in Ids :
          FetchTodayDate(p, "increment_video_count", id, FALSE)
    \/ \E p \in Procs, id \in Ids, inc \in BOOLEAN :
          FetchTodayDate(p, "increment_error_count", id, inc)
    \/ \E p \in Procs : CompareDate(p)
    \/ \E p \in Procs : ExecuteUpdate(p)
    \/ DayTick

SpecRace == InitRace /\ [][NextRace]_vars

\* The callers whose `op` on `token_id` has completed.
Completed(op, token_id) ==
    {p \in Procs : calls[p].pc = "done" /\ calls[p].op = op
                   /\ calls[p].id = token_id}

CompletedOn(token_id) ==
    {p \in Procs : calls[p].pc = "done" /\ calls[p].id = token_id}

\* C2: two concurrent image increments of one credential at the date
\* boundary can both read the stale today_date and both write
\* today_image_count = 1: when every completed call on a credential is an
\* image increment that compared against the stale date, the today counter
\* is 1 however many of them completed, while the lifetime counter has all.
C2_LostTodayIncrement ==
    \A id \in Ids :
        (/\ CompletedOn(id) # {}
         /\ \A p \in CompletedOn(id) :
               calls[p].op = "increment_image_count" /\ calls[p].rollover)
        => /\ token_stats[id].today_image_count = 1
           /\ token_stats[id].image_count =
                 RaceSeed[id].image_count + Cardinality(CompletedOn(id))

\* C2's case: two completed image increments of the credential used on day 0,
\* both decided on day 1 against the stored day 0, and a today counter of 1.
C2_Witness ==
    /\ \E p, q \in Procs :
          /\ p # q
          /\ CompletedOn(1) = {p, q}
          /\ \A r \in {p, q} :
                /\ calls[r].op = "increment_image_count"
                /\ calls[r].rollover
                /\ calls[r].row = Some(UsedStatsRow)
                /\ calls[r].d = 1
    /\ token_stats[1].today_image_count = 1
    /\ token_stats[1].today_date = Some(1)
    /\ token_stats[1].image_count = 9

\* C3: under every interleaving each lifetime counter equals its initial
\* value plus the number of completed increment calls of its type.
C3_LifetimeExact ==
    \A id \in Ids, op \in IncrementOps :
        LifetimeOf(op, token_stats[id]) =
            LifetimeOf(op, RaceSeed[id]) + Cardinality(Completed(op, id))

\* C3's case: two overlapping video increments across the date boundary,
\* both completed, one today increment lost and no lifetime increment lost.
C3_Witness ==
    /\ Cardinality(Completed("increment_video_count", 1)) = 2
    /\ \A p \in Completed("increment_video_count", 1) : calls[p].rollover
    /\ token_stats[1].today_video_count = 1
    /\ token_stats[1].video_count = 2

----------------------------------------------------------------------------
\* The health and usage operations on tokens.

\* A status update that inserts the row it does not find, "INSERT ... ON
\* CONFLICT (id) DO UPDATE SET is_active".
StatusUpsert(table, token_id, is_active) ==
    IF token_id \in DOMAIN table
    THEN UpdateRow(table, token_id,
            [table[token_id] EXCEPT !.is_active = is_active])
    ELSE table @@ (token_id :>
            InsertTokenRow(TokenInput(token_id, NULL, is_active), token_id, 0))

\* update_token_status: UPDATE tokens SET is_active = $1.
StatusUpdate(table, token_id, is_active) ==
    IF token_id \in DOMAIN table
    THEN UpdateRow(table, token_id,
            [table[token_id] EXCEPT !.is_active = is_active])
    ELSE table

\* A mark that sets the expired flag alone.
MarkExpiredFlagOnly(table, token_id) ==
    IF token_id \in DOMAIN table
    THEN UpdateRow(table, token_id, [table[token_id] EXCEPT !.is_expired = TRUE])
    ELSE table

\* mark_token_expired: UPDATE tokens SET is_expired = TRUE, is_active = FALSE.
MarkExpiredUpdate(table, token_id) ==
    IF token_id \in DOMAIN table
    THEN UpdateRow(table, token_id,
            [table[token_id] EXCEPT !.is_expired = TRUE, !.is_active = FALSE])
    ELSE table

\* clear_token_expired: UPDATE tokens SET is_expired = FALSE.
ClearExpiredUpdate(table, token_id) ==
    IF token_id \in DOMAIN table
    THEN UpdateRow(table, token_id,
            [table[token_id] EXCEPT !.is_expired = FALSE])
    ELSE table

\* A usage update that stamps the time and leaves the counter.
UsageUpdateStampOnly(table, token_id, ts) ==
    IF token_id \in DOMAIN table
    THEN UpdateRow(table, token_id,
            [table[token_id] EXCEPT !.last_used_at = Some(ts)])
    ELSE table

\* update_token_usage: last_used_at = CURRENT_TIMESTAMP, use_count + 1.
UsageUpdate(table, token_id, ts) ==
    IF token_id \in DOMAIN table
    THEN UpdateRow(table, token_id,
            [table[token_id] EXCEPT !.last_used_at = Some(ts),
                                    !.use_count = @ + 1])
    ELSE table

\* update_token_cooldown: UPDATE tokens SET cooled_until = $1.
CooldownUpdate(table, token_id, cooled_until) ==
    IF token_id \in DOMAIN table
    THEN UpdateRow(table, token_id,
            [table[token_id] EXCEPT !.cooled_until = cooled_until])
    ELSE table

\* update_token: its fourteen optional arguments, None (NULL) when not given.
UpdateFields ==
    {"token", "st", "rt", "client_id", "proxy_url", "remark", "expiry_time",
     "plan_type", "plan_title", "subscription_end", "image_enabled",
     "video_enabled", "image_concurrency", "video_concurrency"}

\* The columns that hold their value bare; the others hold NULL or Some(v).
BareColumns ==
    {"token", "image_enabled", "video_enabled", "image_concurrency",
     "video_concurrency"}

NoFields == [f \in UpdateFields |-> NULL]

\* "if <arg> is not None: updates.append(...)", argument by argument.
Provided(a) == {f \in UpdateFields : a[f] # NULL}

\* An UPDATE that sets every nullable column of the argument list, to the
\* argument's value or to NULL when none is given.
UpdateTokenRowOverwrites(row, a) ==
    [c \in DOMAIN row |->
        IF c \in UpdateFields \ BareColumns THEN a[c]
        ELSE IF c \in Provided(a) THEN a[c][1]
        ELSE row[c]]

\* UPDATE tokens SET <the provided columns>.
UpdateTokenRow(row, a) ==
    [c \in DOMAIN row |->
        IF c \in Provided(a)
        THEN IF c \in BareColumns THEN a[c][1] ELSE a[c]
        ELSE row[c]]

update_token_status(token_id, is_active) ==
    /\ tokens' = StatusUpdate(tokens, token_id, is_active)
    /\ lastOp' = Op("update_token_status", token_id, Some(is_active),
                    "returned", FetchRow(tokens, token_id))
    /\ UNCHANGED <<token_stats, tokens_id_seq, now, calls, otherVars>>

mark_token_expired(token_id) ==
    /\ tokens' = MarkExpiredUpdate(tokens, token_id)
    /\ lastOp' = Op("mark_token_expired", token_id, NULL, "returned",
                    FetchRow(tokens, token_id))
    /\ UNCHANGED <<token_stats, tokens_id_seq, now, calls, otherVars>>

clear_token_expired(token_id) ==
    /\ tokens' = ClearExpiredUpdate(tokens, token_id)
    /\ lastOp' = Op("clear_token_expired", token_id, NULL, "returned",
                    FetchRow(tokens, token_id))
    /\ UNCHANGED <<token_stats, tokens_id_seq, now, calls, otherVars>>

\* update_token: no statement when nothing is provided; the UPDATE raises
\* when it would give the row a token value another row holds.  The call
\* records the number of statements it issued.
update_token(token_id, a) ==
    /\ LET row == FetchRow(tokens, token_id)
           clash == /\ row # NULL
                    /\ a.token # NULL
                    /\ TokenValueTaken(tokens, a.token[1], {token_id})
       IN  IF Provided(a) = {}
           THEN /\ UNCHANGED tokens
                /\ lastOp' = OpRet("update_token", token_id, a, "returned",
                                   row, Some(0))
           ELSE IF clash
           THEN /\ UNCHANGED tokens
                /\ lastOp' = OpRet("update_token", token_id, a, "raised",
                                   row, Some(1))
           ELSE /\ tokens' = IF row = NULL THEN tokens
                             ELSE UpdateRow(tokens, token_id,
                                            UpdateTokenRow(tokens[token_id], a))
                /\ lastOp' = OpRet("update_token", token_id, a, "returned",
                                   row, Some(1))
    /\ UNCHANGED <<token_stats, tokens_id_seq, now, calls, otherVars>>

\* The Token objects and update_token arguments callers pass here.
TokenInputs == {TokenInput(v, NULL, TRUE) : v \in TokenValues}

UpdateArgs ==
    {NoFields} \cup {[NoFields EXCEPT !.token = Some(v)] : v \in TokenValues}

Next ==
    \/ \E t \in TokenInputs, fault \in AddTokenFaults : add_token(t, fault)
    \/ \E id \in Ids, act \in BOOLEAN : update_token_status(id, act)
    \/ \E id \in Ids : mark_token_expired(id)
    \/ \E id \in Ids : clear_token_expired(id)
    \/ \E id \in Ids, a \in UpdateArgs : update_token(id, a)

Spec == Init /\ [][Next]_vars

----------------------------------------------------------------------------
\* Properties of the health operations (Spec).

PreToken == lastOp.pre[1]

\* C6: add_token is all-or-nothing: once it has returned or raised, the
\* credential row and its stats row both exist (the stats row zero-valued)
\* or neither does.
C6_AddTokenAllOrNothing ==
    lastOp.op = "add_token" =>
        /\ lastOp.id \in DOMAIN tokens <=> lastOp.id \in DOMAIN token_stats
        /\ lastOp.id \in DOMAIN token_stats =>
              token_stats[lastOp.id] = NewStatsRow

\* C7: in every state a credential with is_expired = true has
\* is_active = false.
C7_ExpiredImpliesInactive ==
    \A k \in DOMAIN tokens : tokens[k].is_expired => ~tokens[k].is_active

\* C8: mark_token_expired leaves its credential with is_expired = true and
\* is_active = false, whatever is_active was before, in one step.
C8_MarkExpired ==
    (lastOp.op = "mark_token_expired" /\ lastOp.pre # NULL) =>
        /\ tokens[lastOp.id].is_expired
        /\ ~tokens[lastOp.id].is_active

\* C8's case: the mark of a credential that was active and not expired.
C8_Witness ==
    /\ lastOp.op = "mark_token_expired"
    /\ lastOp.pre # NULL
    /\ PreToken.is_active
    /\ ~PreToken.is_expired
    /\ tokens[lastOp.id].is_expired
    /\ ~tokens[lastOp.id].is_active

----------------------------------------------------------------------------
\* Listing the usable credentials (SpecActive).

\* get_active_tokens: WHERE is_active = TRUE AND (cooled_until IS NULL OR
\* cooled_until < CURRENT_TIMESTAMP) AND expiry_time > CURRENT_TIMESTAMP.
\* A comparison with NULL is not true.
IsListed(row, ts) ==
    /\ row.is_active = TRUE
    /\ (row.cooled_until = NULL \/ row.cooled_until[1] < ts)
    /\ (row.expiry_time # NULL /\ row.expiry_time[1] > ts)

\* An ordering that leaves NULLs where ASC puts them when nothing is said:
\* last.
SortsBeforeNullsLast(a, b) ==
    \/ b.last_used_at = NULL
    \/ (a.last_used_at # NULL /\ a.last_used_at[1] <= b.last_used_at[1])

\* ORDER BY last_used_at ASC NULLS FIRST: row a may stand before row b.
SortsBefore(a, b) ==
    \/ a.last_used_at = NULL
    \/ (b.last_used_at # NULL /\ a.last_used_at[1] <= b.last_used_at[1])

\* The lists the query may return: the listed rows, each once, in an order
\* the ORDER BY allows (rows of equal last_used_at in any order).
ActiveListings(table, ts) ==
    LET S == {k \in DOMAIN table : IsListed(table[k], ts)}
        n == Cardinality(S)
        orders == {f \in [1..n -> S] :
                      /\ \A i, j \in 1..n : i # j => f[i] # f[j]
                      /\ \A i, j \in 1..n :
                            i < j => SortsBefore(table[f[i]], table[f[j]])}
    IN  {[i \in 1..n |-> table[f[i]]] : f \in orders}

get_active_tokens ==
    /\ \E r \in ActiveListings(tokens, now) :
          lastOp' = OpRet("get_active_tokens", 0, NULL, "returned", NULL, r)
    /\ UNCHANGED <<tokens, token_stats, tokens_id_seq, now, calls, otherVars>>

UsesMade ==
    SumOver([k \in DOMAIN tokens |-> tokens[k].use_count], DOMAIN tokens)

update_token_usage(token_id) ==
    /\ UsesMade < MaxUses
    /\ tokens' = UsageUpdate(tokens, token_id, now)
    /\ lastOp' = Op("update_token_usage", token_id, NULL, "returned", NULL)
    /\ UNCHANGED <<token_stats, tokens_id_seq, now, calls, otherVars>>

update_token_cooldown(token_id, cooled_until) ==
    /\ tokens' = CooldownUpdate(tokens, token_id, cooled_until)
    /\ lastOp' = Op("update_token_cooldown", token_id, cooled_until,
                    "returned", NULL)
    /\ UNCHANGED <<token_stats, tokens_id_seq, now, calls, otherVars>>

\* The credentials of the listing: added active with no expiry time, or
\* with one at the clock's last tick, active or not.  Callers set a cooldown
\* until the clock's second tick.
ExpiryInputs == {NULL, Some(MaxTime)}
ListedTokenInputs(id) ==
    {TokenInput(id, exp, act) : exp \in ExpiryInputs, act \in BOOLEAN}
    \ {TokenInput(id, NULL, FALSE)}
CooldownInputs == {Some(1)}

\* A database holding MaxTokens credentials, each added by add_token at the
\* start of the clock.
InitActive ==
    /\ \E t \in [Ids -> UNION {ListedTokenInputs(id) : id \in Ids}] :
          /\ \A id \in Ids : t[id] \in ListedTokenInputs(id)
          /\ tokens = [id \in Ids |-> InsertTokenRow(t[id], id, 0)]
    /\ token_stats = [id \in Ids |-> NewStatsRow]
    /\ tokens_id_seq = MaxTokens + 1
    /\ now = 0
    /\ lastOp = Op("init", 0, NULL, "returned", NULL)
    /\ calls = [p \in Procs |-> IdleCall]
    /\ OtherInit

NextActive ==
    \/ get_active_tokens
    \/ \E id \in Ids : update_token_usage(id)
    \/ \E id \in Ids, cu \in CooldownInputs : update_token_cooldown(id, cu)
    \/ Tick

SpecActive == InitActive /\ [][NextActive]_vars

\* A credential is past its expiry time from the instant of expiry on; one
\* with no expiry time never is.
PastExpiry(row, ts) == row.expiry_time # NULL /\ row.expiry_time[1] <= ts

Usable(row, ts) ==
    /\ row.is_active = TRUE
    /\ (row.cooled_until = NULL \/ row.cooled_until[1] < ts)
    /\ ~PastExpiry(row, ts)

ListedIds(r) == {r[i].id : i \in DOMAIN r}

\* C9: get_active_tokens returns a credential if and only if it is usable:
\* is_active is true, cooled_until is null or in the past, and the credential
\* is not past its expiry_time.
C9_ListedIffUsable ==
    lastOp.op = "get_active_tokens" =>
        \A k \in DOMAIN tokens :
            k \in ListedIds(lastOp.ret) <=> Usable(tokens[k], now)

\* C10: the list get_active_tokens returns has the never-used credentials
\* before all used ones and the used ones by ascending last_used_at; and
\* after update_token_usage(id) no list the query may return has that
\* credential ahead of one whose last use was earlier.
C10_ListingOrder ==
    /\ lastOp.op = "get_active_tokens" =>
          \A i, j \in DOMAIN lastOp.ret :
              i < j =>
                 ~ /\ lastOp.ret[i].last_used_at # NULL
                   /\ \/ lastOp.ret[j].last_used_at = NULL
                      \/ lastOp.ret[j].last_used_at[1]
                            < lastOp.ret[i].last_used_at[1]
    /\ lastOp.op = "update_token_usage" =>
          \A r \in ActiveListings(tokens, now) :
              \A i, j \in DOMAIN r :
                  (r[i].id = lastOp.id /\ i < j) =>
                     ~ /\ r[j].last_used_at # NULL
                       /\ r[j].last_used_at[1] < r[i].last_used_at[1]

\* C10's case: a list of two credentials, the never-used one ahead of the
\* used one although the used one has the smaller id.
C10_Witness ==
    /\ lastOp.op = "get_active_tokens"
    /\ Len(lastOp.ret) = 2
    /\ lastOp.ret[1].last_used_at = NULL
    /\ lastOp.ret[2].last_used_at # NULL
    /\ lastOp.ret[2].id < lastOp.ret[1].id

----------------------------------------------------------------------------
\* update_token_usage under concurrent callers (SpecUsage).  A call acquires
\* a connection and then runs its one UPDATE; the database runs the UPDATEs
\* of one row one after the other, each on the row the one before left.

\* pool = await self.get_pool(); async with pool.acquire() as conn
UsageAcquire(p, token_id) ==
    /\ calls[p].pc = "idle"
    /\ \A q \in Procs : q < p => calls[q].pc # "idle"
    /\ calls' = [calls EXCEPT ![p] =
                    [@ EXCEPT !.pc = "acquired", !.op = "update_token_usage",
                              !.id = token_id]]
    /\ UNCHANGED <<tokens, token_stats, tokens_id_seq, now, lastOp, otherVars>>

\* await conn.execute("UPDATE tokens SET last_used_at = ..., use_count = ...")
UsageExecute(p) ==
    /\ calls[p].pc = "acquired"
    /\ tokens' = UsageUpdate(tokens, calls[p].id, now)
    /\ calls' = [calls EXCEPT ![p] = [@ EXCEPT !.pc = "done"]]
    /\ lastOp' = Op("update_token_usage", calls[p].id, NULL, "returned",
                    FetchRow(tokens, calls[p].id))
    /\ UNCHANGED <<token_stats, tokens_id_seq, now, otherVars>>

NextUsage ==
    \/ \E p \in Procs, id \in AnyId : UsageAcquire(p, id)
    \/ \E p \in Procs : UsageExecute(p)
    \/ \E id \in Ids : mark_token_expired(id)
    \/ DayTick

SpecUsage == InitStats /\ [][NextUsage]_vars

\* The calls of update_token_usage on `token_id` that have completed.
UsagesCompleted(token_id) ==
    {p \in Procs : calls[p].pc = "done" /\ calls[p].id = token_id}

\* C11: update_token_usage(id) raises use_count by exactly 1 and sets
\* last_used_at to now; whatever the interleaving, N completed concurrent
\* calls for one credential have raised its use_count by exactly N; and no
\* step of any operation lowers a credential's use_count.
C11_UsageCount ==
    /\ [](/\ (lastOp.op = "update_token_usage" /\ lastOp.pre # NULL) =>
                /\ tokens[lastOp.id].use_count = PreToken.use_count + 1
                /\ tokens[lastOp.id].last_used_at = Some(now)
          /\ \A k \in DOMAIN tokens :
                tokens[k].use_count = Cardinality(UsagesCompleted(k)))
    /\ [][\A k \in DOMAIN tokens \cap DOMAIN tokens' :
              tokens'[k].use_count >= tokens[k].use_count]_vars

\* C11's case: two concurrent calls for one credential, both holding a
\* connection before either UPDATE ran, have both completed, after the clock
\* moved.
C11_Witness ==
    /\ lastOp.op = "update_token_usage"
    /\ lastOp.pre # NULL
    /\ PreToken.use_count = 1
    /\ Cardinality(UsagesCompleted(lastOp.id)) = 2
    /\ tokens[lastOp.id].use_count = 2
    /\ tokens[lastOp.id].last_used_at = Some(now)
    /\ now > 0

----------------------------------------------------------------------------
\* Tasks, request logs and delete_token (SpecDelete).  tasks.token_id,
\* request_logs.token_id and token_stats.token_id each carry FOREIGN KEY
\* (token_id) REFERENCES tokens(id) with no ON DELETE clause: the database
\* rejects an INSERT that names a credential with no row and a DELETE of a
\* credential row that a row of one of the three tables still names.

\* INSERT INTO tasks (task_id, token_id, model, prompt, status, progress):
\* the row, its other columns at their defaults.
InsertTaskRow(task, id, ts) ==
    [ id |-> id, task_id |-> task.task_id, token_id |-> task.token_id,
      model |-> task.model, prompt |-> task.prompt, status |-> task.status,
      progress |-> task.progress, result_urls |-> NULL,
      error_message |-> NULL, retry_count |-> 0, created_at |-> Some(ts),
      completed_at |-> NULL ]

\* INSERT INTO request_logs (token_id, task_id, operation, request_body,
\* response_body, status_code, duration): the row.
InsertLogRow(log, id, ts) ==
    [ id |-> id, token_id |-> log.token_id, task_id |-> log.task_id,
      operation |-> log.operation, request_body |-> log.request_body,
      response_body |-> log.response_body, status_code |-> log.status_code,
      duration |-> log.duration, created_at |-> Some(ts),
      updated_at |-> NULL ]

\* The tasks and the log entries whose token_id names the credential;
\* request_logs.token_id is nullable.
TasksNaming(token_id) == {k \in DOMAIN tasks : tasks[k].token_id = token_id}
LogsNaming(token_id) ==
    {k \in DOMAIN request_logs : request_logs[k].token_id = Some(token_id)}

\* The foreign keys that stand against DELETE FROM tokens WHERE id = token_id.
TokenReferenced(token_id) ==
    \/ token_id \in DOMAIN token_stats
    \/ TasksNaming(token_id) # {}
    \/ LogsNaming(token_id) # {}

\* create_task: one INSERT; task_id is UNIQUE and token_id a foreign key.
create_task(task) ==
    /\ tasks_id_seq <= MaxTasks
    /\ LET id == tasks_id_seq
           dup == \E k \in DOMAIN tasks : tasks[k].task_id = task.task_id
           orphan == task.token_id \notin DOMAIN tokens
       IN  /\ tasks_id_seq' = id + 1
           /\ IF dup \/ orphan
              THEN /\ UNCHANGED tasks
                   /\ lastOp' = Op("create_task", id, Some(task.token_id),
                                   "raised", NULL)
              ELSE /\ tasks' = tasks @@ (id :> InsertTaskRow(task, id, now))
                   /\ lastOp' = OpRet("create_task", id, Some(task.token_id),
                                      "returned", NULL, Some(id))
    /\ UNCHANGED <<tokens, token_stats, tokens_id_seq, now, calls,
                   request_logs, request_logs_id_seq, poolVars, schemaVars>>

\* log_request: one INSERT; token_id is a nullable foreign key.
log_request(log) ==
    /\ request_logs_id_seq <= MaxLogs
    /\ LET id == request_logs_id_seq
           orphan == /\ log.token_id # NULL
                     /\ log.token_id[1] \notin DOMAIN tokens
       IN  /\ request_logs_id_seq' = id + 1
           /\ IF orphan
              THEN /\ UNCHANGED request_logs
                   /\ lastOp' = Op("log_request", id, log.token_id, "raised",
                                   NULL)
              ELSE /\ request_logs' =
                        request_logs @@ (id :> InsertLogRow(log, id, now))
                   /\ lastOp' = OpRet("log_request", id, log.token_id,
                                      "returned", NULL, Some(id))
    /\ UNCHANGED <<tokens, token_stats, tokens_id_seq, now, calls,
                   tasks, tasks_id_seq, poolVars, schemaVars>>

\* A delete that leaves the stats row where it is.
DeleteStatsKeepsRow(table, token_id) == table

\* DELETE FROM token_stats WHERE token_id = $1.
DeleteStatsUpdate(table, token_id) == DeleteRow(table, token_id)

\* The statement of delete_token that the database fails, if any.
DeleteTokenFaults == {"none", "token_stats", "tokens"}

\* delete_token, first statement.  The call remembers the rows it found.
DeleteTokenStats(p, token_id, fault) ==
    /\ calls[p].pc = "idle"
    /\ \A q \in Procs : q < p => calls[q].pc # "idle"
    /\ IF fault = "token_stats"
       THEN /\ UNCHANGED token_stats
            /\ calls' = [calls EXCEPT ![p] =
                            [@ EXCEPT !.pc = "raised", !.op = "delete_token",
                                      !.id = token_id]]
            /\ lastOp' = Op("delete_token", token_id, Some(fault), "raised",
                            FetchRow(tokens, token_id))
       ELSE /\ token_stats' = DeleteStatsUpdate(token_stats, token_id)
            /\ calls' = [calls EXCEPT ![p] =
                            [@ EXCEPT !.pc = "stats_deleted",
                                      !.op = "delete_token", !.id = token_id,
                                      !.inc = (fault = "tokens")]]
            /\ lastOp' = Op("delete_token", token_id, Some(fault), "running",
                            FetchRow(tokens, token_id))
    /\ UNCHANGED <<tokens, tokens_id_seq, now, otherVars>>

\* delete_token, second statement: DELETE FROM tokens WHERE id = $1.
DeleteTokenRow(p) ==
    /\ calls[p].pc = "stats_deleted"
    /\ LET token_id == calls[p].id
           fault == IF calls[p].inc THEN "tokens" ELSE "none"
           refused == token_id \in DOMAIN tokens /\ TokenReferenced(token_id)
       IN  IF calls[p].inc \/ refused
           THEN /\ UNCHANGED tokens
                /\ calls' = [calls EXCEPT ![p] = [@ EXCEPT !.pc = "raised"]]
                /\ lastOp' = Op("delete_token", token_id, Some(fault),
                                "raised", FetchRow(tokens, token_id))
           ELSE /\ tokens' = DeleteRow(tokens, token_id)
                /\ calls' = [calls EXCEPT ![p] = [@ EXCEPT !.pc = "done"]]
                /\ lastOp' = Op("delete_token", token_id, Some(fault),
                                "returned", FetchRow(tokens, token_id))
    /\ UNCHANGED <<token_stats, tokens_id_seq, now, otherVars>>

\* The tasks and log entries callers create.
TaskInputs ==
    {[task_id |-> "task-1", token_id |-> id, model |-> "sora-video",
      prompt |-> "p", status |-> "processing", progress |-> 0] : id \in AnyId}

LogInputs ==
    {[token_id |-> t, task_id |-> NULL, operation |-> "generate",
      request_body |-> NULL, response_body |-> NULL, status_code |-> 200,
      duration |-> 1] : t \in {NULL} \cup {Some(id) : id \in AnyId}}

NextDelete ==
    \/ \E t \in TokenInputs, fault \in AddTokenFaults : add_token(t, fault)
    \/ \E task \in TaskInputs : create_task(task)
    \/ \E log \in LogInputs : log_request(log)
    \/ \E id \in AnyId, fault \in DeleteTokenFaults :
          DeleteTokenStats(1, id, fault)
    \/ DeleteTokenRow(1)

SpecDelete == Init /\ [][NextDelete]_vars

\* C12: delete_token on a credential that a task or a log entry names, with
\* no statement failed by the database, returns, and afterwards the
\* credential row and its stats row are gone while the task and log rows
\* stay, naming a credential that has no row.
C12_DeleteReferenced ==
    (/\ lastOp.op = "delete_token"
     /\ lastOp.outcome # "running"
     /\ lastOp.arg = Some("none")
     /\ lastOp.pre # NULL
     /\ (TasksNaming(lastOp.id) # {} \/ LogsNaming(lastOp.id) # {}))
    => /\ lastOp.outcome = "returned"
       /\ lastOp.id \notin DOMAIN tokens
       /\ lastOp.id \notin DOMAIN token_stats

\* C13: delete_token removes the stats row before the credential row: when
\* its first statement has run the stats row is gone and the credential row
\* is as it was, and in every state,
\* between the two statements and after a delete that failed part-way
\* included, each stats row has its credential row.
C13_StatsBeforeToken ==
    /\ DOMAIN token_stats \subseteq DOMAIN tokens
    /\ (lastOp.op = "delete_token" /\ lastOp.outcome = "running") =>
          /\ lastOp.id \notin DOMAIN token_stats
          /\ FetchRow(tokens, lastOp.id) = lastOp.pre

\* C13's case: a delete of a credential that had both rows stands between
\* its two statements, the stats row gone and the credential row in place.
C13_Witness ==
    \E p \in Procs :
        /\ calls[p].pc = "stats_deleted"
        /\ lastOp.op = "delete_token"
        /\ lastOp.pre # NULL
        /\ calls[p].id \in DOMAIN tokens
        /\ calls[p].id \notin DOMAIN token_stats
        /\ \E k \in DOMAIN token_stats : k # calls[p].id

----------------------------------------------------------------------------
\* update_token with some of its arguments given (SpecUpdate).

\* The arguments callers pass: each of token, remark and image_enabled given
\* or not; the token value is credential 1's or a new one, and image_enabled
\* is given as False, a value that is not None.
SparseArgs ==
    {[NoFields EXCEPT !.token = t, !.remark = r, !.image_enabled = e] :
        t \in {NULL, Some(1), Some(MaxTokens + 1)},
        r \in {NULL, Some("x")},
        e \in {NULL, Some(FALSE)}}

NextUpdate ==
    \E id \in Ids, a \in SparseArgs : update_token(id, a)

SpecUpdate == InitStats /\ [][NextUpdate]_vars

\* The value a column holds once the argument `v` has been stored in it.
StoredAs(c, v) ==
    IF c \in {"token", "image_enabled", "video_enabled", "image_concurrency",
              "video_concurrency"}
    THEN v[1] ELSE v

\* C14: update_token(id, fields) that returns has changed exactly the
\* columns whose arguments were given, to the values given, and has left
\* every other column of that credential, every other credential and every
\* other table as they were; with no argument given it has issued no
\* statement and the state is as before.
C14_SparseUpdate ==
    [][(lastOp'.op = "update_token" /\ lastOp'.outcome = "returned") =>
          LET id == lastOp'.id
              a == lastOp'.arg
          IN  /\ DOMAIN tokens' = DOMAIN tokens
              /\ \A k \in DOMAIN tokens : k # id => tokens'[k] = tokens[k]
              /\ id \in DOMAIN tokens =>
                    \A c \in DOMAIN tokens[id] :
                        IF c \in DOMAIN a /\ a[c] # NULL
                        THEN tokens'[id][c] = StoredAs(c, a[c])
                        ELSE tokens'[id][c] = tokens[id][c]
              /\ (\A f \in DOMAIN a : a[f] = NULL) =>
                    /\ lastOp'.ret = Some(0)
                    /\ tokens' = tokens
              /\ UNCHANGED <<token_stats, tasks, request_logs>>]_vars

\* C14's case: an update that gave only a remark, on a credential whose
\* image_enabled an earlier update had turned off, has stored the remark
\* and left image_enabled off.
C14_Witness ==
    /\ lastOp.op = "update_token"
    /\ lastOp.outcome = "returned"
    /\ lastOp.pre # NULL
    /\ lastOp.arg.remark = Some("x")
    /\ lastOp.arg.token = NULL
    /\ lastOp.arg.image_enabled = NULL
    /\ PreToken.remark = NULL
    /\ PreToken.image_enabled = FALSE
    /\ tokens[lastOp.id].remark = Some("x")
    /\ tokens[lastOp.id].image_enabled = FALSE

----------------------------------------------------------------------------
\* The connection pool: get_pool and close (SpecPool).  Callers are
\* coroutines of one event loop: a call runs without interruption from one
\* await to the next, and other callers run while it awaits create_pool,
\* sleep or the pool's close.

\* A backoff that grows by retry_delay with each attempt.
WaitTimeLinear(attempt) == retry_delay * (attempt + 1)

\* wait_time = retry_delay * (2**attempt)
WaitTime(attempt) == retry_delay * (2 ^ attempt)

\* A close that leaves the attribute as it is.
CloseKeepsCached(cached) == cached

\* close: self._pool = None
CloseCached(cached) == NULL

\* get_pool and close touch nothing but the pool.
PoolFrame ==
    UNCHANGED <<tokens, token_stats, tokens_id_seq, now, lastOp, calls,
                refVars, schemaVars>>

\* The callers that are inside the retry loop of get_pool.
Creating == {p \in Procs : pool_calls[p].pc \in {"creating", "sleeping"}}

\* get_pool up to its first await: return the cached pool, or enter the loop
\* and call create_pool.
GetPoolEnter(p) ==
    /\ pool_calls[p].pc = "idle"
    /\ \A q \in Procs : q < p => pool_calls[q].pc # "idle"
    /\ IF pool # NULL
       THEN pool_calls' = [pool_calls EXCEPT ![p] =
                [IdlePoolCall EXCEPT !.pc = "done", !.op = "get_pool",
                                     !.found = pool, !.ret = pool]]
       ELSE /\ Len(pools) + Cardinality(Creating) < MaxPools
            /\ pool_calls' = [pool_calls EXCEPT ![p] =
                [IdlePoolCall EXCEPT !.pc = "creating", !.op = "get_pool",
                                     !.attempts = 1]]
    /\ UNCHANGED <<pool, pools>>
    /\ PoolFrame

\* await asyncpg.create_pool(...) comes back: with a pool, which is cached
\* and returned, or with an exception, after which the call sleeps or, on
\* the last attempt, raises.
CreatePool(p, ok) ==
    /\ pool_calls[p].pc = "creating"
    /\ LET c == pool_calls[p]
       IN  IF ok
           THEN /\ pools' = Append(pools, "open")
                /\ pool' = Some(Len(pools) + 1)
                /\ pool_calls' = [pool_calls EXCEPT ![p] =
                      [c EXCEPT !.pc = "done", !.ret = Some(Len(pools) + 1)]]
           ELSE /\ UNCHANGED <<pool, pools>>
                /\ pool_calls' = [pool_calls EXCEPT ![p] =
                      IF c.attempt < max_retries - 1
                      THEN [c EXCEPT !.pc = "sleeping",
                                     !.waits = Append(@, WaitTime(c.attempt))]
                      ELSE [c EXCEPT !.pc = "raised"]]
    /\ PoolFrame

\* await asyncio.sleep(wait_time) comes back: the next attempt.
Wake(p) ==
    /\ pool_calls[p].pc = "sleeping"
    /\ pool_calls' = [pool_calls EXCEPT ![p] =
          [@ EXCEPT !.pc = "creating", !.attempt = @ + 1, !.attempts = @ + 1]]
    /\ UNCHANGED <<pool, pools>>
    /\ PoolFrame

\* close up to its await: nothing to do with no pool cached, else the
\* pool's close() is called.
CloseEnter(p) ==
    /\ pool_calls[p].pc = "idle"
    /\ \A q \in Procs : q < p => pool_calls[q].pc # "idle"
    /\ IF pool = NULL
       THEN /\ pool_calls' = [pool_calls EXCEPT ![p] =
                [IdlePoolCall EXCEPT !.pc = "done", !.op = "close"]]
            /\ UNCHANGED pools
       ELSE /\ pool_calls' = [pool_calls EXCEPT ![p] =
                [IdlePoolCall EXCEPT !.pc = "closing", !.op = "close",
                                     !.found = pool]]
            /\ pools' = [pools EXCEPT ![pool[1]] = "closing"]
    /\ UNCHANGED pool
    /\ PoolFrame

\* await self._pool.close() comes back: self._pool = None.
CloseFinish(p) ==
    /\ pool_calls[p].pc = "closing"
    /\ pools' = [pools EXCEPT ![pool_calls[p].found[1]] = "closed"]
    /\ pool' = CloseCached(pool)
    /\ pool_calls' = [pool_calls EXCEPT ![p] = [@ EXCEPT !.pc = "done"]]
    /\ PoolFrame

\* The caller is free for its next call.
Return(p) ==
    /\ pool_calls[p].pc \in {"done", "raised"}
    /\ pool_calls' = [pool_calls EXCEPT ![p] = IdlePoolCall]
    /\ UNCHANGED <<pool, pools>>
    /\ PoolFrame

\* A Database object just constructed: no pool.
InitPool ==
    /\ tokens = <<>>
    /\ token_stats = <<>>
    /\ tokens_id_seq = 1
    /\ now = 0
    /\ lastOp = Op("init", 0, NULL, "returned", NULL)
    /\ calls = [p \in Procs |-> IdleCall]
    /\ tasks = <<>>
    /\ tasks_id_seq = 1
    /\ request_logs = <<>>
    /\ request_logs_id_seq = 1
    /\ pool = NULL
    /\ pools = <<>>
    /\ pool_calls = [p \in Procs |-> IdlePoolCall]
    /\ columns = AllColumns
    /\ config_rows = Range(ConfigTables)
    /\ mig = IdleMigration
    /\ config = DefaultRows(config_rows)
    /\ config_writes = 0
    /\ probe = NoProbe

NextPool ==
    \/ \E p \in Procs : GetPoolEnter(p)
    \/ \E p \in Procs, ok \in BOOLEAN : CreatePool(p, ok)
    \/ \E p \in Procs : Wake(p)
    \/ \E p \in Procs : CloseEnter(p)
    \/ \E p \in Procs : CloseFinish(p)
    \/ \E p \in Procs : Return(p)

\* Every await comes back: create_pool answers or times out (timeout=30),
\* a sleep ends, a close completes.
PoolFairness ==
    \A p \in Procs :
        /\ WF_vars(\E ok \in BOOLEAN : CreatePool(p, ok))
        /\ WF_vars(Wake(p))
        /\ WF_vars(CloseFinish(p))

SpecPool == InitPool /\ [][NextPool]_vars /\ PoolFairness

\* The get_pool calls that found no pool cached.
Initializing(p) ==
    /\ pool_calls[p].op = "get_pool"
    /\ pool_calls[p].found = NULL
    /\ pool_calls[p].pc # "idle"

\* C15: a get_pool call that finds no pool cached makes at most 5 calls of
\* create_pool and stops at the first that succeeds; it has waited 2, 4, 8
\* and 16 after the first four failures and not after the fifth; it raises
\* only when all 5 have failed; and it always ends, with a pool or with
\* that error.
C15_RetryBudget ==
    /\ [](\A p \in Procs : Initializing(p) =>
             LET c == pool_calls[p]
             IN  /\ c.attempts \in 1..5
                 /\ Len(c.waits) <= 4
                 /\ \A i \in DOMAIN c.waits : c.waits[i] = 2 * (2 ^ (i - 1))
                 /\ c.pc = "creating" => Len(c.waits) = c.attempts - 1
                 /\ c.pc = "sleeping" => Len(c.waits) = c.attempts
                 /\ c.pc = "done" =>
                       /\ Len(c.waits) = c.attempts - 1
                       /\ c.ret # NULL
                 /\ c.pc = "raised" =>
                       /\ c.attempts = 5
                       /\ c.waits = <<2, 4, 8, 16>>
                       /\ c.ret = NULL)
    /\ \A p \in Procs :
          (pool_calls[p].pc = "creating")
             ~> (pool_calls[p].pc \in {"done", "raised"})

\* C15's case: a call whose five attempts all failed has raised, having
\* waited 2, 4, 8 and 16.
C15_Witness ==
    \E p \in Procs :
        /\ Initializing(p)
        /\ pool_calls[p].pc = "raised"
        /\ pool_calls[p].attempts = 5
        /\ pool_calls[p].waits = <<2, 4, 8, 16>>

\* C16: while no pool has been closed, however many callers call get_pool
\* with no pool cached, one pool is created and every caller that has
\* returned holds that pool.
C16_CreatedOnce ==
    (\A i \in DOMAIN pools : pools[i] = "open") =>
        /\ Len(pools) <= 1
        /\ \A p, q \in Procs :
              (/\ pool_calls[p].op = "get_pool" /\ pool_calls[p].pc = "done"
               /\ pool_calls[q].op = "get_pool" /\ pool_calls[q].pc = "done")
              => pool_calls[p].ret = pool_calls[q].ret

\* C17: when close() completes no pool is cached; close() with no pool
\* cached changes nothing; and a get_pool that finds no pool cached runs the
\* initialization and returns the pool it has just created, and no get_pool
\* returns a pool whose close has completed.
C17_CloseClears ==
    [][\A p \in Procs :
          /\ (pool_calls[p].pc = "closing" /\ pool_calls'[p].pc = "done")
                => pool' = NULL
          /\ (/\ pool_calls[p].pc = "idle"
              /\ pool_calls'[p].op = "close"
              /\ pool = NULL)
                => /\ pool' = NULL
                   /\ pools' = pools
                   /\ pool_calls'[p].pc = "done"
          /\ (/\ pool_calls[p].pc # "done"
              /\ pool_calls'[p].pc = "done"
              /\ pool_calls'[p].op = "get_pool")
                => LET c == pool_calls'[p]
                   IN  /\ c.ret # NULL
                       /\ pools'[c.ret[1]] # "closed"
                       /\ c.found = NULL =>
                             /\ c.attempts >= 1
                             /\ Len(pools') = Len(pools) + 1
                             /\ c.ret = Some(Len(pools'))
                             /\ pool' = c.ret]_vars

\* C17's case: after a close of the first pool has completed, a get_pool
\* call that found no pool cached has returned the second, open pool.
C17_Witness ==
    \E p \in Procs :
        /\ Initializing(p)
        /\ pool_calls[p].pc = "done"
        /\ pool_calls[p].ret = Some(2)
        /\ Len(pools) = 2
        /\ pools[1] = "closed"
        /\ pools[2] = "open"
        /\ pool = Some(2)

----------------------------------------------------------------------------
\* check_and_migrate_db (SpecMigrate).  A run takes the tables of
\* MigrationTables in turn, probing each column of the table's list and
\* adding the missing ones, each ALTER TABLE in its own try/except, and ends
\* with _ensure_config_rows.  Statements commit one by one.  The tables all
\* exist; the faults are ALTER TABLE statements the database refuses.

\* A probe that never finds the column.
ColumnNeverFound(cols, table, column) == FALSE

\* _column_exists: the catalog has the column.
ColumnExists(cols, table, column) == <<table, column>> \in cols

\* _table_exists.
TableExists(table) ==
    table \in Range(MigrationTables) \cup Range(ConfigTables)

\* ALTER TABLE table ADD COLUMN column: refused when the database fails the
\* statement and when the table has the column already.
AddColumnSucceeds(cols, table, column, fail) ==
    /\ <<table, column>> \notin cols
    /\ <<table, column>> \notin fail

\* A loop that gives up at the first ALTER TABLE that fails.
RECURSIVE MigrateColumnsAbort(_, _, _, _, _)
MigrateColumnsAbort(table, todo, fail, cols, m) ==
    IF todo = <<>> THEN [columns |-> cols, mig |-> m]
    ELSE LET column == Head(todo)
         IN  IF ColumnExists(cols, table, column)
             THEN MigrateColumnsAbort(table, Tail(todo), fail, cols,
                     [m EXCEPT !.probed = @ + 1])
             ELSE IF AddColumnSucceeds(cols, table, column, fail)
             THEN MigrateColumnsAbort(table, Tail(todo), fail,
                     cols \cup {<<table, column>>},
                     [m EXCEPT !.probed = @ + 1,
                               !.attempted = Append(@, <<table, column>>)])
             ELSE [columns |-> cols,
                   mig |-> [m EXCEPT
                              !.probed = @ + 1,
                              !.attempted = Append(@, <<table, column>>),
                              !.failed = @ \cup {<<table, column>>}]]

\* for col_name, col_type in columns_to_add:
\*     if not await self._column_exists(conn, table, col_name):
\*         try: ALTER TABLE ... ADD COLUMN ...   except Exception: print(...)
RECURSIVE MigrateColumns(_, _, _, _, _)
MigrateColumns(table, todo, fail, cols, m) ==
    IF todo = <<>> THEN [columns |-> cols, mig |-> m]
    ELSE LET column == Head(todo)
         IN  IF ColumnExists(cols, table, column)
             THEN MigrateColumns(table, Tail(todo), fail, cols,
                     [m EXCEPT !.probed = @ + 1])
             ELSE IF AddColumnSucceeds(cols, table, column, fail)
             THEN MigrateColumns(table, Tail(todo), fail,
                     cols \cup {<<table, column>>},
                     [m EXCEPT !.probed = @ + 1,
                               !.attempted = Append(@, <<table, column>>)])
             ELSE MigrateColumns(table, Tail(todo), fail, cols,
                     [m EXCEPT !.probed = @ + 1,
                               !.attempted = Append(@, <<table, column>>),
                               !.failed = @ \cup {<<table, column>>}])

\* A walk that returns after the first row it inserts.
RECURSIVE EnsureRowsOneTable(_, _, _)
EnsureRowsOneTable(todo, rows, cols) ==
    IF todo = <<>> THEN [rows |-> rows, raised |-> FALSE]
    ELSE IF Head(todo) \in rows THEN EnsureRowsOneTable(Tail(todo), rows, cols)
    ELSE [rows |-> rows \cup {Head(todo)}, raised |-> FALSE]

\* _ensure_config_rows: each config table in turn; a table with no row gets
\* one by an INSERT that names InsertColumns(table), which raises when the
\* table lacks one of them and so ends the walk.
RECURSIVE EnsureRows(_, _, _)
EnsureRows(todo, rows, cols) ==
    IF todo = <<>> THEN [rows |-> rows, raised |-> FALSE]
    ELSE LET table == Head(todo)
         IN  IF table \in rows THEN EnsureRows(Tail(todo), rows, cols)
             ELSE IF \A c \in InsertColumns(table) : <<table, c>> \in cols
             THEN EnsureRows(Tail(todo), rows \cup {table}, cols)
             ELSE [rows |-> rows, raised |-> TRUE]

\* A walk that writes its row into every table, "INSERT ... ON CONFLICT (id)
\* DO UPDATE", whether the table held a row or not.
EnsuredConfigOverwrite(rows, cfg, config_dict, ts) ==
    [t \in rows |-> BootstrapRow(t, config_dict, ts)]

\* The config rows once the walk has given the tables in `rows` their row:
\* a row that was there is kept as it is, a new one is that of BootstrapRow.
EnsuredConfig(rows, cfg, config_dict, ts) ==
    [t \in rows |-> IF t \in DOMAIN cfg THEN cfg[t]
                    ELSE BootstrapRow(t, config_dict, ts)]

MigrateFrame ==
    UNCHANGED <<tokens, token_stats, tokens_id_seq, now, lastOp, calls,
                refVars, poolVars, config_writes, probe>>

\* A run begins: pool = await self.get_pool(); async with pool.acquire().
\* It notes the schema it starts from when the run before it returned
\* without a failed statement.
StartMigration ==
    /\ mig.pc = 0
    /\ mig' = [pc |-> 1, probed |-> 0, attempted |-> <<>>, failed |-> {},
               outcome |-> "running",
               prev |-> IF mig.outcome = "returned" /\ mig.failed = {}
                        THEN Some(columns) ELSE NULL]
    /\ UNCHANGED <<columns, config_rows, config>>
    /\ MigrateFrame

\* The columns of `table` that the schema lacks.
MissingIn(table) ==
    {<<table, c>> : c \in {c \in Range(ColumnsToAdd(table)) :
                              <<table, c>> \notin columns}}

\* The sets of ALTER TABLE statements the database may refuse in the block
\* the run stands at: any of those the block will issue.
FailChoices ==
    IF mig.pc \in DOMAIN MigrationTables
    THEN SUBSET MissingIn(MigrationTables[mig.pc])
    ELSE {}

\* One "if await self._table_exists(conn, table): for ..." block; `fail` is
\* the set of its ALTER TABLE statements the database refuses.
MigrateBlock(fail) ==
    /\ mig.pc \in DOMAIN MigrationTables
    /\ LET table == MigrationTables[mig.pc]
           r == IF TableExists(table)
                THEN MigrateColumns(table, ColumnsToAdd(table), fail,
                                    columns, mig)
                ELSE [columns |-> columns, mig |-> mig]
       IN  /\ fail \subseteq MissingIn(table)
           /\ columns' = r.columns
           /\ mig' = [r.mig EXCEPT !.pc = @ + 1]
    /\ UNCHANGED <<config_rows, config>>
    /\ MigrateFrame

MigrateTable == \E fail \in FailChoices : MigrateBlock(fail)

\* await self._ensure_config_rows(conn, config_dict), the end of the run;
\* the run is given no overrides (config_dict = None, the default).
EnsureConfigRows ==
    /\ mig.pc = Len(MigrationTables) + 1
    /\ LET r == EnsureRows(ConfigTables, config_rows, columns)
       IN  /\ config_rows' = r.rows
           /\ config' = EnsuredConfig(r.rows, config, NULL, now)
           /\ mig' = [mig EXCEPT !.pc = 0,
                         !.outcome = IF r.raised THEN "raised" ELSE "returned"]
    /\ UNCHANGED columns
    /\ MigrateFrame

\* The schemas a run may find: that of init_db less up to MaxMissing of the
\* migrated columns (a database an earlier version created), with every
\* config row in place, none, or all but those of the config tables the
\* migration touches.
MigratedConfigTables == Range(MigrationTables) \cap Range(ConfigTables)

\* The subsets of S of at most n elements.
RECURSIVE SubsetsUpTo(_, _)
SubsetsUpTo(S, n) ==
    IF n = 0 THEN {{}}
    ELSE LET smaller == SubsetsUpTo(S, n - 1)
         IN  smaller \cup {T \cup {x} : T \in smaller, x \in S}

ConfigRowStates ==
    {{}} \cup {Range(ConfigTables) \ E : E \in SUBSET MigratedConfigTables}

InitMigrate ==
    /\ tokens = <<>>
    /\ token_stats = <<>>
    /\ tokens_id_seq = 1
    /\ now = 0
    /\ lastOp = Op("init", 0, NULL, "returned", NULL)
    /\ calls = [p \in Procs |-> IdleCall]
    /\ tasks = <<>>
    /\ tasks_id_seq = 1
    /\ request_logs = <<>>
    /\ request_logs_id_seq = 1
    /\ pool = Some(1)
    /\ pools = <<"open">>
    /\ pool_calls = [p \in Procs |-> IdlePoolCall]
    /\ \E missing \in SubsetsUpTo(MigratedColumns, MaxMissing) :
          columns = AllColumns \ missing
    /\ config_rows \in ConfigRowStates
    /\ mig = IdleMigration
    /\ config = DefaultRows(config_rows)
    /\ config_writes = 0
    /\ probe = NoProbe

NextMigrate ==
    \/ StartMigration
    \/ MigrateTable
    \/ EnsureConfigRows

SpecMigrate == InitMigrate /\ [][NextMigrate]_vars

\* The number of entries in the lists of the tables before the k-th.
RECURSIVE EntriesBefore(_)
EntriesBefore(k) ==
    IF k <= 1 THEN 0
    ELSE EntriesBefore(k - 1) + Len(ColumnsToAdd(MigrationTables[k - 1]))

\* The blocks a run has behind it.
BlocksDone ==
    IF mig.outcome = "none" THEN 0
    ELSE IF mig.pc = 0 THEN Len(MigrationTables) ELSE mig.pc - 1

C19_FailureSkipped ==
    /\ mig.probed = EntriesBefore(BlocksDone + 1)
    /\ mig.failed \subseteq Range(mig.attempted)
    /\ \A k \in 1..BlocksDone :
          \A c \in Range(ColumnsToAdd(MigrationTables[k])) :
              \/ <<MigrationTables[k], c>> \in columns
              \/ <<MigrationTables[k], c>> \in Range(mig.attempted)

\* C19's case: a run has completed in which an addition failed and a later
\* entry of the list, missing as well, was added.
C19_Witness ==
    /\ mig.pc = 0
    /\ mig.outcome # "none"
    /\ \E i, j \in DOMAIN mig.attempted :
          /\ i < j
          /\ mig.attempted[i] \in mig.failed
          /\ mig.attempted[j] \notin mig.failed
          /\ mig.attempted[j] \in columns
          /\ mig.attempted[i][1] = mig.attempted[j][1]

\* C20: check_and_migrate_db does not raise when the only faults are failed
\* column additions, whichever additions fail and whatever rows the config
\* tables hold.
C20_NeverRaises == mig.outcome # "raised"


----------------------------------------------------------------------------
\* The catalog probes of the migration, _table_exists and _column_exists,
\* each one query against information_schema that the server may fail
\* (`fault`: the connection drops, the statement is cancelled).

ProbeFrame ==
    UNCHANGED <<tokens, token_stats, tokens_id_seq, now, lastOp, calls,
                refVars, poolVars, columns, config_rows, mig, config,
                config_writes>>

\* _table_exists: "result = await conn.fetchval(...); return result" with no
\* handler around it, so a failing query raises out of the probe.
ProbeTable(table, fault) ==
    /\ probe' = [op |-> "_table_exists", table |-> table, column |-> "",
                 fault |-> fault,
                 outcome |-> IF fault THEN "raised" ELSE "returned",
                 ret |-> IF fault THEN FALSE ELSE TableExists(table)]
    /\ ProbeFrame

\* _column_exists: the query inside try, "except: return False".
ProbeColumn(table, column, fault) ==
    /\ probe' = [op |-> "_column_exists", table |-> table, column |-> column,
                 fault |-> fault,
                 outcome |-> "returned",
                 ret |-> IF fault THEN FALSE
                         ELSE ColumnExists(columns, table, column)]
    /\ ProbeFrame

\* The schema of init_db, or that schema less one migrated column.
InitProbe ==
    /\ tokens = <<>>
    /\ token_stats = <<>>
    /\ tokens_id_seq = 1
    /\ now = 0
    /\ lastOp = Op("init", 0, NULL, "returned", NULL)
    /\ calls = [p \in Procs |-> IdleCall]
    /\ tasks = <<>>
    /\ tasks_id_seq = 1
    /\ request_logs = <<>>
    /\ request_logs_id_seq = 1
    /\ pool = Some(1)
    /\ pools = <<"open">>
    /\ pool_calls = [p \in Procs |-> IdlePoolCall]
    /\ \E missing \in SubsetsUpTo(MigratedColumns, 1) :
          columns = AllColumns \ missing
    /\ config_rows = Range(ConfigTables)
    /\ mig = IdleMigration
    /\ config = DefaultRows(config_rows)
    /\ config_writes = 0
    /\ probe = NoProbe

NextProbe ==
    \/ \E table \in Range(MigrationTables), fault \in BOOLEAN :
          ProbeTable(table, fault)
    \/ \E tc \in MigratedColumns, fault \in BOOLEAN :
          ProbeColumn(tc[1], tc[2], fault)

SpecProbe == InitProbe /\ [][NextProbe]_vars

\* C21: a probe whose catalog query fails does not raise: it returns false,
\* "absent", whether it is the table probe or the column probe.
C21_ProbeTolerant ==
    probe.fault => probe.outcome = "returned" /\ probe.ret = FALSE


----------------------------------------------------------------------------
\* The config tables: the bootstrap (init_config_from_toml over
\* _ensure_config_rows), the eight get_*_config and the eight
\* update_*_config.  Each statement commits on its own; the callers here
\* run one after the other.  An Optional argument is NULL or Some(value).

\* What the config operations leave alone.
ConfigFrame ==
    UNCHANGED <<tokens, token_stats, tokens_id_seq, now, calls, refVars,
                poolVars, columns, mig, probe>>

\* init_config_from_toml: _ensure_config_rows with the overrides on a first
\* startup and with config_dict=None otherwise.
init_config_from_toml(config_dict, is_first_startup) ==
    /\ LET given == IF is_first_startup THEN config_dict ELSE NULL
           r == EnsureRows(ConfigTables, DOMAIN config, columns)
       IN  /\ config' = EnsuredConfig(r.rows, config, given, now)
           /\ config_rows' = r.rows
           /\ lastOp' = OpRet("init_config_from_toml", 0,
                              [config_dict |-> config_dict,
                               is_first_startup |-> is_first_startup],
                              IF r.raised THEN "raised" ELSE "returned",
                              config, NULL)
    /\ UNCHANGED config_writes
    /\ ConfigFrame

\* The value object a get returns when the table holds no row with id 1:
\* the fields the code passes to the model's constructor.
DefaultObject(table) ==
    CASE table = "admin_config" ->
            [admin_username |-> "admin", admin_password |-> "admin",
             api_key |-> "han1234"]
      [] table = "proxy_config" -> [proxy_enabled |-> FALSE]
      [] table = "watermark_free_config" ->
            [watermark_free_enabled |-> FALSE, parse_method |-> "third_party"]
      [] table = "cache_config" ->
            [cache_enabled |-> FALSE, cache_timeout |-> 600]
      [] table = "generation_config" ->
            [image_timeout |-> 300, video_timeout |-> 3000]
      [] table = "token_refresh_config" -> [at_auto_refresh_enabled |-> FALSE]
      [] table = "call_logic_config" ->
            [call_mode |-> "default", polling_mode_enabled |-> FALSE]
      [] table = "pow_proxy_config" ->
            [pow_proxy_enabled |-> FALSE, pow_proxy_url |-> NULL]

\* get_call_logic_config on a row: "if not row_dict.get('call_mode')" the
\* mode is derived from the legacy flag.
CallLogicObject(row) ==
    IF row.call_mode = ""
    THEN [row EXCEPT !.call_mode = IF row.polling_mode_enabled THEN "polling"
                                   ELSE "default"]
    ELSE row

\* A get without the fallback: None when the table holds no row.
GetConfigNoDefault(cfg, table) ==
    IF table \in DOMAIN cfg THEN cfg[table] ELSE NULL

\* "row = fetchrow(SELECT * ... WHERE id = 1); if row: return Model(**row);
\* return Model(<defaults>)".
GetConfig(cfg, table) ==
    IF table \in DOMAIN cfg
    THEN IF table = "call_logic_config" THEN CallLogicObject(cfg[table])
         ELSE cfg[table]
    ELSE DefaultObject(table)

\* A get: one SELECT, nothing written.
ConfigGet(name, table) ==
    /\ lastOp' = OpRet(name, 0, [table |-> table], "returned",
                       FetchRow(config, table),
                       Some(GetConfig(config, table)))
    /\ UNCHANGED <<config, config_rows, config_writes>>
    /\ ConfigFrame

get_admin_config ==
    /\ ConfigGet("get_admin_config", "admin_config")
get_proxy_config ==
    /\ ConfigGet("get_proxy_config", "proxy_config")
get_watermark_free_config ==
    /\ ConfigGet("get_watermark_free_config", "watermark_free_config")
get_cache_config ==
    /\ ConfigGet("get_cache_config", "cache_config")
get_generation_config ==
    /\ ConfigGet("get_generation_config", "generation_config")
get_token_refresh_config ==
    /\ ConfigGet("get_token_refresh_config", "token_refresh_config")
get_call_logic_config ==
    /\ ConfigGet("get_call_logic_config", "call_logic_config")
get_pow_proxy_config ==
    /\ ConfigGet("get_pow_proxy_config", "pow_proxy_config")

\* "UPDATE table SET ... WHERE id = 1" with the row it leaves, or
\* "INSERT INTO table ..." of that row: the step of an update_*_config.
ConfigWrite(name, table, arg, cfg) ==
    /\ config_writes < MaxConfigWrites
    /\ config_writes' = config_writes + 1
    /\ config' = cfg
    /\ config_rows' = DOMAIN cfg
    /\ lastOp' = OpRet(name, 0, arg, "returned", FetchRow(config, table), NULL)
    /\ ConfigFrame

\* update_admin_config: one UPDATE of the seven fields, WHERE id = 1.
update_admin_config(c) ==
    /\ ConfigWrite("update_admin_config", "admin_config", c,
        IF "admin_config" \in DOMAIN config
        THEN [config EXCEPT !["admin_config"] =
                 [@ EXCEPT !.admin_username = c.admin_username,
                           !.admin_password = c.admin_password,
                           !.api_key = c.api_key,
                           !.error_ban_threshold = c.error_ban_threshold,
                           !.task_retry_enabled = c.task_retry_enabled,
                           !.task_max_retries = c.task_max_retries,
                           !.auto_disable_on_401 = c.auto_disable_on_401,
                           !.updated_at = Some(now)]]
        ELSE config)

\* update_proxy_config: one UPDATE, proxy_url bound as it was passed.
update_proxy_config(enabled, proxy_url) ==
    /\ ConfigWrite("update_proxy_config", "proxy_config",
        [enabled |-> enabled, proxy_url |-> proxy_url],
        IF "proxy_config" \in DOMAIN config
        THEN [config EXCEPT !["proxy_config"] =
                 [@ EXCEPT !.proxy_enabled = enabled,
                           !.proxy_url = proxy_url,
                           !.updated_at = Some(now)]]
        ELSE config)

\* "parse_method or 'third_party'"
OrThirdParty(parse_method) ==
    IF parse_method = NULL \/ parse_method = Some("") THEN "third_party"
    ELSE parse_method[1]

\* update_watermark_free_config: with the four optional arguments all None
\* it updates the enabled flag alone, otherwise all five fields.
update_watermark_free_config(a) ==
    /\ ConfigWrite("update_watermark_free_config", "watermark_free_config", a,
        IF "watermark_free_config" \in DOMAIN config
        THEN IF /\ a.parse_method = NULL
                /\ a.custom_parse_url = NULL
                /\ a.custom_parse_token = NULL
                /\ a.fallback_on_failure = NULL
             THEN [config EXCEPT !["watermark_free_config"] =
                      [@ EXCEPT !.watermark_free_enabled = a.enabled,
                                !.updated_at = Some(now)]]
             ELSE [config EXCEPT !["watermark_free_config"] =
                      [@ EXCEPT !.watermark_free_enabled = a.enabled,
                                !.parse_method = OrThirdParty(a.parse_method),
                                !.custom_parse_url = a.custom_parse_url,
                                !.custom_parse_token = a.custom_parse_token,
                                !.fallback_on_failure =
                                    IF a.fallback_on_failure # NULL
                                    THEN a.fallback_on_failure[1] ELSE TRUE,
                                !.updated_at = Some(now)]]
        ELSE config)

\* "x if x is not None else y"
IfNotNone(x, y) == IF x # NULL THEN x[1] ELSE y

\* "new_base_url if new_base_url else None" on an Optional string.
NoneIfEmpty(v) == IF v = Some("") THEN NULL ELSE v

\* update_cache_config: read the row, merge the arguments into it (or into
\* the defaults when there is none), then one UPDATE WHERE id = 1.
update_cache_config(a) ==
    LET row == FetchRow(config, "cache_config")
        new_enabled ==
            IfNotNone(a.enabled, IF row # NULL THEN row[1].cache_enabled ELSE FALSE)
        new_timeout ==
            IfNotNone(a.timeout, IF row # NULL THEN row[1].cache_timeout ELSE 600)
        new_base_url ==
            NoneIfEmpty(IF row # NULL /\ a.base_url = NULL
                        THEN row[1].cache_base_url ELSE a.base_url)
    IN  /\ ConfigWrite("update_cache_config", "cache_config", a,
            IF "cache_config" \in DOMAIN config
            THEN [config EXCEPT !["cache_config"] =
                     [@ EXCEPT !.cache_enabled = new_enabled,
                               !.cache_timeout = new_timeout,
                               !.cache_base_url = new_base_url,
                               !.updated_at = Some(now)]]
            ELSE config)

\* update_generation_config: the same read, merge and UPDATE.
update_generation_config(a) ==
    LET row == FetchRow(config, "generation_config")
        new_image_timeout ==
            IfNotNone(a.image_timeout,
                      IF row # NULL THEN row[1].image_timeout ELSE 300)
        new_video_timeout ==
            IfNotNone(a.video_timeout,
                      IF row # NULL THEN row[1].video_timeout ELSE 3000)
    IN  /\ ConfigWrite("update_generation_config", "generation_config", a,
            IF "generation_config" \in DOMAIN config
            THEN [config EXCEPT !["generation_config"] =
                     [@ EXCEPT !.image_timeout = new_image_timeout,
                               !.video_timeout = new_video_timeout,
                               !.updated_at = Some(now)]]
            ELSE config)

\* An update that replaces the row, "DELETE FROM token_refresh_config" and
\* then the UPDATE, which finds nothing to update.
ReplaceTokenRefreshConfig(at_auto_refresh_enabled) ==
    /\ ConfigWrite("update_token_refresh_config", "token_refresh_config",
        [at_auto_refresh_enabled |-> at_auto_refresh_enabled],
        [t \in DOMAIN config \ {"token_refresh_config"} |-> config[t]])

\* update_token_refresh_config: one UPDATE WHERE id = 1.
update_token_refresh_config(at_auto_refresh_enabled) ==
    /\ ConfigWrite("update_token_refresh_config", "token_refresh_config",
        [at_auto_refresh_enabled |-> at_auto_refresh_enabled],
        IF "token_refresh_config" \in DOMAIN config
        THEN [config EXCEPT !["token_refresh_config"] =
                 [@ EXCEPT !.at_auto_refresh_enabled = at_auto_refresh_enabled,
                           !.updated_at = Some(now)]]
        ELSE config)

\* update_call_logic_config: the mode normalised, then INSERT when
\* "SELECT COUNT(*) ... WHERE id = 1" is 0 and UPDATE otherwise.
update_call_logic_config(call_mode) ==
    LET normalized == IF call_mode = "polling" THEN "polling" ELSE "default"
        polling_mode_enabled == (normalized = "polling")
    IN  /\ ConfigWrite("update_call_logic_config", "call_logic_config",
            [call_mode |-> call_mode],
            IF "call_logic_config" \in DOMAIN config
            THEN [config EXCEPT !["call_logic_config"] =
                     [@ EXCEPT !.call_mode = normalized,
                               !.polling_mode_enabled = polling_mode_enabled,
                               !.updated_at = Some(now)]]
            ELSE [t \in DOMAIN config \cup {"call_logic_config"} |->
                     IF t = "call_logic_config"
                     THEN [id |-> 1, call_mode |-> normalized,
                           polling_mode_enabled |-> polling_mode_enabled,
                           created_at |-> Some(now), updated_at |-> Some(now)]
                     ELSE config[t]])

\* update_pow_proxy_config: INSERT when the row is absent, UPDATE otherwise,
\* pow_proxy_url bound as it was passed.
update_pow_proxy_config(pow_proxy_enabled, pow_proxy_url) ==
    /\ ConfigWrite("update_pow_proxy_config", "pow_proxy_config",
        [pow_proxy_enabled |-> pow_proxy_enabled,
         pow_proxy_url |-> pow_proxy_url],
        IF "pow_proxy_config" \in DOMAIN config
        THEN [config EXCEPT !["pow_proxy_config"] =
                 [@ EXCEPT !.pow_proxy_enabled = pow_proxy_enabled,
                           !.pow_proxy_url = pow_proxy_url,
                           !.updated_at = Some(now)]]
        ELSE [t \in DOMAIN config \cup {"pow_proxy_config"} |->
                 IF t = "pow_proxy_config"
                 THEN [id |-> 1, pow_proxy_enabled |-> pow_proxy_enabled,
                       pow_proxy_url |-> pow_proxy_url,
                       created_at |-> Some(now), updated_at |-> Some(now)]
                 ELSE config[t]])

\* The call_logic sections the overrides may carry: none, the legacy flag
\* alone, an enumerated mode, a mode the code does not know.
CallLogicSections ==
    <<NULL,
      [polling_mode_enabled |-> TRUE],
      [call_mode |-> "polling"],
      [call_mode |-> "default", polling_mode_enabled |-> TRUE],
      [call_mode |-> "legacy", polling_mode_enabled |-> TRUE],
      [call_mode |-> "legacy", polling_mode_enabled |-> FALSE]>>

\* A configuration file: the sections the bootstrap reads, its URL and
\* token settings all `u`.
Overrides(u, call_logic) ==
    [global |-> [api_key |-> "key"],
     proxy |-> [proxy_enabled |-> TRUE, proxy_url |-> u],
     watermark_free |-> [parse_method |-> "custom", custom_parse_url |-> u,
                         custom_parse_token |-> u,
                         fallback_on_failure |-> FALSE],
     cache |-> [enabled |-> TRUE, base_url |-> u],
     generation |-> [image_timeout |-> 120],
     call_logic |-> call_logic,
     pow_proxy |-> [pow_proxy_enabled |-> TRUE, pow_proxy_url |-> u]]

\* The overrides handed to the bootstrap: none, or a file whose URL settings
\* are empty with each call_logic section, or filled in.
ConfigDicts ==
    <<NULL>>
      \o [i \in DOMAIN CallLogicSections |-> Overrides("", CallLogicSections[i])]
      \o <<Overrides("http://u", NULL)>>

AdminInputs ==
    {[admin_username |-> "root", admin_password |-> "pw", api_key |-> "k",
      error_ban_threshold |-> 5, task_retry_enabled |-> FALSE,
      task_max_retries |-> 1, auto_disable_on_401 |-> FALSE]}

UrlInputs == {NULL, Some(""), Some("http://x")}

WatermarkInputs ==
    {[enabled |-> TRUE, parse_method |-> NULL, custom_parse_url |-> NULL,
      custom_parse_token |-> NULL, fallback_on_failure |-> NULL],
     [enabled |-> TRUE, parse_method |-> Some("custom"),
      custom_parse_url |-> NULL, custom_parse_token |-> NULL,
      fallback_on_failure |-> NULL],
     [enabled |-> TRUE, parse_method |-> Some("custom"),
      custom_parse_url |-> Some(""), custom_parse_token |-> Some("t"),
      fallback_on_failure |-> Some(FALSE)]}

CacheInputs ==
    {[enabled |-> NULL, timeout |-> Some(900), base_url |-> NULL],
     [enabled |-> Some(FALSE), timeout |-> NULL, base_url |-> Some("")],
     [enabled |-> NULL, timeout |-> NULL, base_url |-> Some("http://x")]}

GenerationInputs ==
    {[image_timeout |-> Some(600), video_timeout |-> NULL],
     [image_timeout |-> NULL, video_timeout |-> Some(6000)]}

CallModeInputs == {"polling", "default", "legacy"}

\* A database init_db has just created (no config row), or one an earlier
\* version filled, which has no row for the categories added since.
InitConfig ==
    /\ tokens = <<>>
    /\ token_stats = <<>>
    /\ tokens_id_seq = 1
    /\ now = 0
    /\ lastOp = Op("init", 0, NULL, "returned", NULL)
    /\ calls = [p \in Procs |-> IdleCall]
    /\ tasks = <<>>
    /\ tasks_id_seq = 1
    /\ request_logs = <<>>
    /\ request_logs_id_seq = 1
    /\ pool = Some(1)
    /\ pools = <<"open">>
    /\ pool_calls = [p \in Procs |-> IdlePoolCall]
    /\ columns = AllColumns
    /\ config_rows \in
          {{}, Range(ConfigTables)
                 \ {"cache_config", "call_logic_config", "pow_proxy_config"}}
    /\ mig = IdleMigration
    /\ config = DefaultRows(config_rows)
    /\ config_writes = 0
    /\ probe = NoProbe

Bootstrap ==
    \E i \in DOMAIN ConfigDicts, is_first_startup \in BOOLEAN :
        init_config_from_toml(ConfigDicts[i], is_first_startup)

NextConfig ==
    \/ Bootstrap
    \/ get_admin_config
    \/ get_proxy_config
    \/ get_watermark_free_config
    \/ get_cache_config
    \/ get_generation_config
    \/ get_token_refresh_config
    \/ get_call_logic_config
    \/ get_pow_proxy_config
    \/ \E c \in AdminInputs : update_admin_config(c)
    \/ \E url \in UrlInputs : update_proxy_config(TRUE, url)
    \/ \E a \in WatermarkInputs : update_watermark_free_config(a)
    \/ \E a \in CacheInputs : update_cache_config(a)
    \/ \E a \in GenerationInputs : update_generation_config(a)
    \/ update_token_refresh_config(TRUE)
    \/ \E call_mode \in CallModeInputs : update_call_logic_config(call_mode)
    \/ \E url \in UrlInputs : update_pow_proxy_config(TRUE, url)

SpecConfig == InitConfig /\ [][NextConfig]_vars


----------------------------------------------------------------------------
\* Claims about the config tables.

\* Every config table holds its row, the one with id 1.
AllConfigRows(cfg) ==
    /\ DOMAIN cfg = Range(ConfigTables)
    /\ \A t \in DOMAIN cfg : cfg[t].id = 1

\* C22: a bootstrap that returns leaves one row in each of the eight config
\* tables, whatever rows it started from, and a bootstrap that follows a
\* bootstrap changes nothing.
C22_BootstrapTwice ==
    /\ [](lastOp.op = "init_config_from_toml" => AllConfigRows(config))
    /\ [][(lastOp.op = "init_config_from_toml"
             /\ lastOp'.op = "init_config_from_toml")
          => (config' = config /\ config_rows' = config_rows)]_vars

\* A bootstrap that found every row in place although the database had
\* started without some: the second of two runs.
C22_Witness ==
    /\ lastOp.op = "init_config_from_toml"
    /\ AllConfigRows(lastOp.pre)
    /\ lastOp.pre = config


\* C23: once every config table holds its row with id 1, which is how a
\* bootstrap leaves them, every get, update and further bootstrap keeps it so.
C23_SingletonKept ==
    [][AllConfigRows(config) => AllConfigRows(config')]_config

\* An update made after the bootstrap that found its row and changed it.
C23_Witness ==
    /\ lastOp.op = "update_cache_config"
    /\ lastOp.pre # NULL
    /\ AllConfigRows(config)
    /\ config["cache_config"] # lastOp.pre[1]


\* C24: a bootstrap, in either mode, leaves every row it found exactly as
\* it was; the rows it adds are those of the tables that had none, and when
\* it runs as an upgrade (is_first_startup false) they hold the hard-coded
\* defaults whatever overrides were passed.
C24_BootstrapKeepsRows ==
    lastOp.op = "init_config_from_toml" =>
        /\ \A t \in DOMAIN lastOp.pre :
              t \in DOMAIN config /\ config[t] = lastOp.pre[t]
        /\ ~lastOp.arg.is_first_startup =>
              \A t \in DOMAIN config \ DOMAIN lastOp.pre :
                  config[t] = DefaultRow(t)

\* An upgrade run that was handed overrides, found an edited row and added
\* the rows that were missing.
C24_Witness ==
    /\ lastOp.op = "init_config_from_toml"
    /\ ~lastOp.arg.is_first_startup
    /\ lastOp.arg.config_dict # NULL
    /\ DOMAIN lastOp.pre # {}
    /\ DOMAIN lastOp.pre # DOMAIN config
    /\ \E t \in DOMAIN lastOp.pre : lastOp.pre[t] # DefaultRow(t)


\* The call_logic section of the overrides a bootstrap was handed.
CallLogicSection(config_dict) == Get(config_dict, "call_logic", <<>>)

\* A first-startup bootstrap with overrides that inserted the call-mode row.
PopulatedCallLogic ==
    /\ lastOp.op = "init_config_from_toml"
    /\ lastOp.arg.is_first_startup
    /\ lastOp.arg.config_dict # NULL
    /\ "call_logic_config" \notin DOMAIN lastOp.pre
    /\ "call_logic_config" \in DOMAIN config

\* C25: the call-mode row populated from overrides that carry the legacy
\* polling_mode_enabled = true and no call_mode is stored with call_mode =
\* "polling"; populated from call_mode = "default" it is stored with
\* polling_mode_enabled = false.
C25_LegacyFlag ==
    PopulatedCallLogic =>
        LET section == CallLogicSection(lastOp.arg.config_dict)
            row == config["call_logic_config"]
        IN  /\ ("call_mode" \notin DOMAIN section
                  /\ Get(section, "polling_mode_enabled", FALSE))
               => row.call_mode = "polling"
            /\ Get(section, "call_mode", "") = "default"
               => row.polling_mode_enabled = FALSE

\* C26: whatever wrote the call-mode row last (a bootstrap with any
\* overrides, update_call_logic_config with any string), its call_mode is
\* "default" or "polling" and its polling_mode_enabled says whether it is
\* "polling".
C26_CallModeConsistent ==
    "call_logic_config" \in DOMAIN config =>
        LET row == config["call_logic_config"]
        IN  /\ row.call_mode \in {"default", "polling"}
            /\ row.polling_mode_enabled = (row.call_mode = "polling")

\* The bootstrap derived "polling" from the legacy flag under a mode it
\* does not know, and an update was given such a mode and stored "default".
C26_Witness ==
    \/ /\ PopulatedCallLogic
       /\ Get(CallLogicSection(lastOp.arg.config_dict), "call_mode", "")
              \notin {"", "default", "polling"}
       /\ config["call_logic_config"].call_mode = "polling"
    \/ /\ lastOp.op = "update_call_logic_config"
       /\ lastOp.arg.call_mode \notin {"default", "polling"}
       /\ lastOp.pre # NULL
       /\ lastOp.pre[1].call_mode = "polling"
       /\ config["call_logic_config"].call_mode = "default"


\* The optional URL and token settings of the config tables.
UrlFields ==
    {<<"proxy_config", "proxy_url">>,
     <<"watermark_free_config", "custom_parse_url">>,
     <<"watermark_free_config", "custom_parse_token">>,
     <<"cache_config", "cache_base_url">>,
     <<"pow_proxy_config", "pow_proxy_url">>}

\* C27: no stored proxy_url, custom_parse_url, custom_parse_token,
\* cache_base_url or pow_proxy_url is the empty string, whichever bootstrap
\* or update wrote it: an empty input is stored as null.
C27_NoEmptyString ==
    \A f \in UrlFields :
        f[1] \in DOMAIN config => config[f[1]][f[2]] # Some("")

\* The optional fields of a category that an update was not given.
Unsupplied(table, arg) ==
    CASE table = "watermark_free_config" ->
            {f \in {"parse_method", "custom_parse_url", "custom_parse_token",
                    "fallback_on_failure"} : arg[f] = NULL}
      [] table = "cache_config" ->
            {c \in {"cache_enabled", "cache_timeout", "cache_base_url"} :
                \/ c = "cache_enabled" /\ arg.enabled = NULL
                \/ c = "cache_timeout" /\ arg.timeout = NULL
                \/ c = "cache_base_url" /\ arg.base_url = NULL}
      [] table = "generation_config" ->
            {f \in {"image_timeout", "video_timeout"} : arg[f] = NULL}

\* The table each update writes.
UpdatedTable(op) ==
    CASE op = "update_admin_config" -> "admin_config"
      [] op = "update_proxy_config" -> "proxy_config"
      [] op = "update_watermark_free_config" -> "watermark_free_config"
      [] op = "update_cache_config" -> "cache_config"
      [] op = "update_generation_config" -> "generation_config"
      [] op = "update_token_refresh_config" -> "token_refresh_config"
      [] op = "update_call_logic_config" -> "call_logic_config"
      [] op = "update_pow_proxy_config" -> "pow_proxy_config"

ConfigUpdates ==
    {"update_admin_config", "update_proxy_config",
     "update_watermark_free_config", "update_cache_config",
     "update_generation_config", "update_token_refresh_config",
     "update_call_logic_config", "update_pow_proxy_config"}

\* C28: an update of the watermark-free, cache or generation category that
\* found the row leaves every optional field it was not given at the value
\* the row had.
C28_UnsuppliedKept ==
    (/\ lastOp.op \in {"update_watermark_free_config", "update_cache_config",
                       "update_generation_config"}
     /\ lastOp.pre # NULL)
    => LET table == UpdatedTable(lastOp.op)
       IN  \A f \in Unsupplied(table, lastOp.arg) :
               config[table][f] = lastOp.pre[1][f]

\* C29: an update of any of the eight categories that found no row leaves
\* the category with its row.
C29_UpdateCreates ==
    (lastOp.op \in ConfigUpdates /\ lastOp.pre = NULL)
    => UpdatedTable(lastOp.op) \in DOMAIN config


ConfigGets ==
    {"get_admin_config", "get_proxy_config", "get_watermark_free_config",
     "get_cache_config", "get_generation_config", "get_token_refresh_config",
     "get_call_logic_config", "get_pow_proxy_config"}

\* C30: a get of any category returns (it does not raise) the stored row
\* when the table holds one and the hard-coded default object when it holds
\* none, and the step of a get leaves the config tables as they were.
C30_GetReturns ==
    /\ [](lastOp.op \in ConfigGets =>
            /\ lastOp.outcome = "returned"
            /\ lastOp.pre = FetchRow(config, lastOp.arg.table)
            /\ lastOp.ret = IF lastOp.arg.table \in DOMAIN config
                            THEN Some(config[lastOp.arg.table])
                            ELSE Some(DefaultObject(lastOp.arg.table)))
    /\ [][lastOp'.op \in ConfigGets =>
            (config' = config /\ config_rows' = config_rows)]_vars

\* A get of a category whose table holds no row returned the default
\* object, in a run in which an update had been made.
C30_Witness ==
    /\ lastOp.op \in ConfigGets
    /\ lastOp.pre = NULL
    /\ lastOp.ret = Some(DefaultObject(lastOp.arg.table))
    /\ config_writes > 0

----------------------------------------------------------------------------
\* Tasks: create_task and update_task (SpecTasks).

\* "datetime.now() if status in ['completed', 'failed'] else None", a
\* completion time for every status.
CompletedAtAlways(status, ts) == Some(ts)

\* "completed_at = datetime.now() if status in ['completed', 'failed'] else
\* None"
CompletedAt(status, ts) ==
    IF status \in {"completed", "failed"} THEN Some(ts) ELSE NULL

\* An UPDATE that keeps the stored completion time when it is given none,
\* "completed_at = COALESCE($5, completed_at)".
UpdateTaskRowCoalesce(row, a, ts) ==
    [row EXCEPT !.status = a.status, !.progress = a.progress,
                !.result_urls = a.result_urls,
                !.error_message = a.error_message,
                !.completed_at = IF CompletedAt(a.status, ts) # NULL
                                 THEN CompletedAt(a.status, ts) ELSE @]

\* "UPDATE tasks SET status = $1, progress = $2, result_urls = $3,
\* error_message = $4, completed_at = $5": the row it leaves.
UpdateTaskRow(row, a, ts) ==
    [row EXCEPT !.status = a.status, !.progress = a.progress,
                !.result_urls = a.result_urls,
                !.error_message = a.error_message,
                !.completed_at = CompletedAt(a.status, ts)]

\* The rows of tasks with the given task_id (task_id is UNIQUE).
TasksWithId(table, task_id) == {k \in DOMAIN table : table[k].task_id = task_id}

\* update_task: one UPDATE ... WHERE task_id = $6.
update_task(a) ==
    /\ LET found == TasksWithId(tasks, a.task_id)
       IN  /\ tasks' = [k \in DOMAIN tasks |->
                           IF k \in found THEN UpdateTaskRow(tasks[k], a, now)
                           ELSE tasks[k]]
           /\ lastOp' = Op("update_task", 0, a, "returned",
                           IF found = {} THEN NULL
                           ELSE Some(tasks[CHOOSE k \in found : TRUE]))
    /\ UNCHANGED <<tokens, token_stats, tokens_id_seq, now, calls,
                   tasks_id_seq, request_logs, request_logs_id_seq,
                   poolVars, schemaVars>>

\* The tasks callers create here: for the first credential, under one of two
\* task ids, in a status that may already be terminal.
NewTaskInputs ==
    {[task_id |-> t, token_id |-> 1, model |-> "sora-video", prompt |-> "p",
      status |-> s, progress |-> 0] :
        t \in {"task-1", "task-2"}, s \in {"processing", "completed"}}

\* The updates callers make: progress, success with its URLs, failure with
\* its message.
UpdateTaskInputs ==
    {[task_id |-> t, status |-> u[1], progress |-> u[2],
      result_urls |-> u[3], error_message |-> u[4]] :
        t \in {"task-1", "task-2"},
        u \in {<<"processing", 50, NULL, NULL>>,
               <<"completed", 100, Some("url"), NULL>>,
               <<"failed", 0, NULL, Some("error")>>}}

NextTasks ==
    \/ \E task \in NewTaskInputs : create_task(task)
    \/ \E a \in UpdateTaskInputs : update_task(a)
    \/ Tick

SpecTasks == InitStats /\ [][NextTasks]_vars

\* The task row an update_task left.
UpdatedTask == tasks[CHOOSE k \in TasksWithId(tasks, lastOp.arg.task_id) : TRUE]

\* C31: after update_task on a task, its completed_at is non-null exactly
\* when the status passed is "completed" or "failed"; under any other status
\* it is null, whatever it was before.
C31_CompletedAtIffTerminal ==
    (lastOp.op = "update_task" /\ lastOp.pre # NULL) =>
        /\ UpdatedTask.status = lastOp.arg.status
        /\ UpdatedTask.completed_at # NULL
              <=> lastOp.arg.status \in {"completed", "failed"}

\* An update to "processing" of a task that had a completion time.
C31_Witness ==
    /\ lastOp.op = "update_task"
    /\ lastOp.pre # NULL
    /\ lastOp.pre[1].completed_at # NULL
    /\ lastOp.arg.status = "processing"
    /\ UpdatedTask.completed_at = NULL


Terminal(status) == status \in {"completed", "failed"}

\* C39: under create_task and update_task a task with a completion time is
\* in status "completed" or "failed", and a step that takes a task out of
\* such a status leaves it without a completion time.
C39_CompletedOnlyTerminal ==
    /\ [](\A k \in DOMAIN tasks :
            tasks[k].completed_at # NULL => Terminal(tasks[k].status))
    /\ [][\A k \in DOMAIN tasks \cap DOMAIN tasks' :
            (Terminal(tasks[k].status) /\ ~Terminal(tasks'[k].status))
            => tasks'[k].completed_at = NULL]_tasks

\* update_task took a completed task, completion time and all, back to
\* "processing".
C39_Witness ==
    /\ lastOp.op = "update_task"
    /\ lastOp.pre # NULL
    /\ lastOp.pre[1].status = "completed"
    /\ lastOp.pre[1].completed_at # NULL
    /\ UpdatedTask.status = "processing"
    /\ UpdatedTask.completed_at = NULL


----------------------------------------------------------------------------
\* Request logs: log_request, update_request_log and
\* update_request_log_task_id (SpecLogs).

\* An update that stamps updated_at even when it is given nothing.
UpdateLogRowStampsAlways(row, a, ts) ==
    [row EXCEPT !.response_body = IF a.response_body # NULL
                                  THEN a.response_body ELSE @,
                !.status_code = IF a.status_code # NULL
                                THEN a.status_code[1] ELSE @,
                !.duration = IF a.duration # NULL THEN a.duration[1] ELSE @,
                !.updated_at = Some(ts)]

\* update_request_log: the SET list holds the arguments that are not None
\* and, "if updates", updated_at = CURRENT_TIMESTAMP; with an empty list no
\* statement is issued.
UpdateLogRow(row, a, ts) ==
    IF a.response_body = NULL /\ a.status_code = NULL /\ a.duration = NULL
    THEN row
    ELSE [row EXCEPT !.response_body = IF a.response_body # NULL
                                       THEN a.response_body ELSE @,
                     !.status_code = IF a.status_code # NULL
                                     THEN a.status_code[1] ELSE @,
                     !.duration = IF a.duration # NULL
                                  THEN a.duration[1] ELSE @,
                     !.updated_at = Some(ts)]

update_request_log(log_id, a) ==
    /\ request_logs' =
          IF log_id \in DOMAIN request_logs
          THEN [request_logs EXCEPT
                   ![log_id] = UpdateLogRow(request_logs[log_id], a, now)]
          ELSE request_logs
    /\ lastOp' = Op("update_request_log", log_id, a, "returned",
                    FetchRow(request_logs, log_id))
    /\ UNCHANGED <<tokens, token_stats, tokens_id_seq, now, calls, tasks,
                   tasks_id_seq, request_logs_id_seq, poolVars, schemaVars>>

\* update_request_log_task_id: "UPDATE request_logs SET task_id = $1,
\* updated_at = CURRENT_TIMESTAMP WHERE id = $2".
update_request_log_task_id(log_id, task_id) ==
    /\ request_logs' =
          IF log_id \in DOMAIN request_logs
          THEN [request_logs EXCEPT
                   ![log_id] = [@ EXCEPT !.task_id = Some(task_id),
                                         !.updated_at = Some(now)]]
          ELSE request_logs
    /\ lastOp' = Op("update_request_log_task_id", log_id,
                    [task_id |-> task_id], "returned",
                    FetchRow(request_logs, log_id))
    /\ UNCHANGED <<tokens, token_stats, tokens_id_seq, now, calls, tasks,
                   tasks_id_seq, request_logs_id_seq, poolVars, schemaVars>>

\* The completion data callers pass: nothing, or the response with its
\* status code and no duration.
UpdateLogInputs ==
    {[response_body |-> NULL, status_code |-> NULL, duration |-> NULL],
     [response_body |-> Some("ok"), status_code |-> Some(500),
      duration |-> NULL]}

\* The entries callers write here: for no credential or for the first.
NewLogInputs ==
    {[token_id |-> t, task_id |-> NULL, operation |-> "generate",
      request_body |-> Some("{}"), response_body |-> NULL, status_code |-> -1,
      duration |-> -1] : t \in {NULL, Some(1)}}

\* The log ids callers pass: those the sequence hands out and the next one.
LogIds == 1..(MaxLogs + 1)

NextLogs ==
    \/ \E log \in NewLogInputs : log_request(log)
    \/ \E id \in LogIds, a \in UpdateLogInputs : update_request_log(id, a)
    \/ \E id \in LogIds : update_request_log_task_id(id, "task-1")
    \/ DayTick

SpecLogs == InitStats /\ [][NextLogs]_vars

\* C32: once log_request has written an entry, no update_request_log and no
\* update_request_log_task_id changes its token_id, operation, request_body
\* or created_at (they change response_body, status_code, duration, task_id
\* and updated_at only), and update_request_log given nothing leaves the
\* entry as it was.
C32_LogAppendOnly ==
    /\ [][\A k \in DOMAIN request_logs :
            /\ k \in DOMAIN request_logs'
            /\ request_logs'[k].id = request_logs[k].id
            /\ request_logs'[k].token_id = request_logs[k].token_id
            /\ request_logs'[k].operation = request_logs[k].operation
            /\ request_logs'[k].request_body = request_logs[k].request_body
            /\ request_logs'[k].created_at = request_logs[k].created_at]_request_logs
    /\ []((/\ lastOp.op = "update_request_log"
           /\ lastOp.pre # NULL
           /\ lastOp.arg = [response_body |-> NULL, status_code |-> NULL,
                            duration |-> NULL])
          => request_logs[lastOp.id] = lastOp.pre[1])

\* An entry written at one time and completed at a later one, then given
\* its task id: the late fields changed, created_at did not.
C32_Witness ==
    /\ lastOp.op = "update_request_log_task_id"
    /\ lastOp.pre # NULL
    /\ lastOp.pre[1].response_body = Some("ok")
    /\ lastOp.pre[1].status_code = 500
    /\ request_logs[lastOp.id].task_id = Some("task-1")
    /\ request_logs[lastOp.id].created_at # request_logs[lastOp.id].updated_at
    /\ request_logs[lastOp.id].created_at = lastOp.pre[1].created_at


----------------------------------------------------------------------------
\* Uniqueness of the token value (Spec).

\* Another credential than `id` holds the token value.
HeldByAnother(value, id) ==
    \E k \in DOMAIN tokens \ {id} : tokens[k].token = value

\* C33: no two credentials hold the same token value; add_token with a value
\* another credential holds raises and adds neither row, and update_token
\* that would give a credential such a value raises and leaves its row as it
\* was.
C33_TokenUnique ==
    /\ \A i, j \in DOMAIN tokens :
          i # j => tokens[i].token # tokens[j].token
    /\ (lastOp.op = "add_token" /\ HeldByAnother(lastOp.arg[1], lastOp.id))
       => /\ lastOp.outcome = "raised"
          /\ lastOp.id \notin DOMAIN tokens
          /\ lastOp.id \notin DOMAIN token_stats
    /\ (/\ lastOp.op = "update_token"
        /\ lastOp.pre # NULL
        /\ lastOp.arg.token # NULL
        /\ HeldByAnother(lastOp.arg.token[1], lastOp.id))
       => /\ lastOp.outcome = "raised"
          /\ tokens[lastOp.id] = lastOp.pre[1]

\* update_token raised on a value another credential holds.
C33_Witness ==
    /\ lastOp.op = "update_token"
    /\ lastOp.pre # NULL
    /\ lastOp.arg.token # NULL
    /\ HeldByAnother(lastOp.arg.token[1], lastOp.id)
    /\ lastOp.outcome = "raised"
    /\ Cardinality(DOMAIN tokens) = MaxTokens


----------------------------------------------------------------------------
\* The today counters across counter types (SpecStats).

\* C34: the today counters of a credential count only the increments made on
\* the date in today_date: when an increment of one type finds an earlier
\* date stored and moves today_date to the current date, the today counters
\* of the other two types, which have had no increment on that date, are 0.
C34_TodayCountersOfToday ==
    (/\ LastOpOnRow(IncrementOps)
     /\ PreStats.today_date # NULL
     /\ PreStats.today_date # Some(Today))
    => /\ PostStats.today_date = Some(Today)
       /\ \A op \in IncrementOps \ {lastOp.op} : TodayOf(op, PostStats) = 0


----------------------------------------------------------------------------
\* Concurrent increments within one day (SpecRace).

\* C35: while the current date is the one a credential's row has stored,
\* every today counter of the row equals its starting value plus the number
\* of completed increments of its type, however the calls interleave.
C35_SameDayExact ==
    \A id \in Ids, op \in IncrementOps :
        RaceSeed[id].today_date = Some(Today) =>
            TodayOf(op, token_stats[id]) =
                TodayOf(op, RaceSeed[id]) + Cardinality(Completed(op, id))

\* Every caller has completed an image increment of the credential used
\* on day 0, on day 0, each having fetched the row before any had updated it.
C35_Witness ==
    /\ Today = 0
    /\ Completed("increment_image_count", 1) = Procs
    /\ \A p \in Procs : calls[p].row = Some(UsedStatsRow)
    /\ token_stats[1].today_image_count =
          UsedStatsRow.today_image_count + NumProcs


----------------------------------------------------------------------------
\* Error increments racing with resets (SpecStreak): the callers of
\* SpecRace make error increments of credential 1, in their three steps,
\* while reset_error_count, a single UPDATE, runs between any two of the
\* steps.

NextStreak ==
    \/ \E p \in Procs, inc \in BOOLEAN :
          FetchTodayDate(p, "increment_error_count", 1, inc)
    \/ \E p \in Procs : CompareDate(p)
    \/ \E p \in Procs : ExecuteUpdate(p)
    \/ \E id \in Ids : reset_error_count(id)
    \/ DayTick

SpecStreak == InitRace /\ [][NextStreak]_vars

\* The callers whose streak-counting error increment of `token_id` takes
\* effect in this step, and whether the step is a reset of `token_id`.
TakesEffect(token_id) ==
    {p \in Procs : /\ calls[p].pc = "decided" /\ calls'[p].pc = "done"
                   /\ calls[p].op = "increment_error_count"
                   /\ calls[p].id = token_id /\ calls[p].inc}

ResetStep(token_id) ==
    /\ lastOp' # lastOp
    /\ lastOp'.op = "reset_error_count"
    /\ lastOp'.id = token_id

\* C36: under every interleaving of error increments and resets of one
\* credential the streak counter is the number of streak-counting
\* increments that took effect since the last reset: a reset leaves it at
\* 0, an increment with increment_consecutive taking effect adds exactly 1
\* to whatever it is then, and no other step changes it.
C36_StreakSinceReset ==
    [][\A id \in Ids :
          token_stats'[id].consecutive_error_count =
              IF ResetStep(id)
              THEN 0
              ELSE token_stats[id].consecutive_error_count
                       + Cardinality(TakesEffect(id))]_vars

\* Every caller fetched credential 1's row at a streak of 2; one increment
\* took effect, a reset found the streak at 3, and the remaining increments
\* took effect after it.
C36_Witness ==
    /\ \A p \in Procs : /\ calls[p].pc = "done" /\ calls[p].id = 1
                        /\ calls[p].inc
                        /\ calls[p].row = Some(UsedStatsRow)
    /\ lastOp.op = "reset_error_count" /\ lastOp.id = 1
    /\ lastOp.pre # NULL
    /\ lastOp.pre[1].consecutive_error_count = 3
    /\ token_stats[1].consecutive_error_count = NumProcs - 1


----------------------------------------------------------------------------
\* The counters of a row add_token created (SpecCounters): starting from
\* the rows add_token inserts, callers increment the counters of
\* credential 1, in the three steps of SpecRace, and reset its streak,
\* across a change of day.

NextCounters ==
    \/ \E p \in Procs :
          FetchTodayDate(p, "increment_image_count", 1, FALSE)
    \/ \E p \in Procs :
          FetchTodayDate(p, "increment_video_count", 1, FALSE)
    \/ \E p \in Procs, inc \in BOOLEAN :
          FetchTodayDate(p, "increment_error_count", 1, inc)
    \/ \E p \in Procs : CompareDate(p)
    \/ \E p \in Procs : ExecuteUpdate(p)
    \/ reset_error_count(1)
    \/ DayTick

SpecCounters == InitStats /\ [][NextCounters]_vars

\* C37: in every stats row no today counter exceeds its lifetime counter,
\* the streak counter does not exceed error_count, and no counter is
\* negative.
C37_CountersBounded ==
    \A id \in DOMAIN token_stats :
        LET row == token_stats[id]
        IN  /\ 0 <= row.today_image_count
            /\ row.today_image_count <= row.image_count
            /\ 0 <= row.today_video_count
            /\ row.today_video_count <= row.video_count
            /\ 0 <= row.today_error_count
            /\ row.today_error_count <= row.error_count
            /\ 0 <= row.consecutive_error_count
            /\ row.consecutive_error_count <= row.error_count

\* A row that every caller has incremented, errors among the increments,
\* whose lifetime error counter has outgrown both the day's and the streak.
C37_Witness ==
    \E id \in DOMAIN token_stats :
        /\ CompletedOn(id) = Procs
        /\ token_stats[id].today_error_count >= 1
        /\ token_stats[id].today_error_count < token_stats[id].error_count
        /\ token_stats[id].consecutive_error_count < token_stats[id].error_count


----------------------------------------------------------------------------
\* Concurrent bootstraps (SpecBoot).  NumProcs runs of _ensure_config_rows
\* start together on empty config tables.  A run walks ConfigTables in
\* order; at each table it awaits SELECT COUNT(*) and, having counted 0,
\* awaits the INSERT of the row with id 1, so other runs' statements fall
\* between the two.  Nothing in the walk catches an exception.
\* calls[p] is the position of run p: the index of its table, the statement
\* it is about to issue ("count", "insert") or how it ended ("returned",
\* "raised"), the config_dict it was given (the runs take those of
\* ConfigDicts in turn), and the tables whose INSERT it completed.

\* Tables that take any number of rows with id 1.
NoPrimaryKey(cfg, table) == FALSE

\* "id INTEGER PRIMARY KEY": an INSERT of id 1 is rejected when the table
\* holds a row with id 1.
PrimaryKeyTaken(cfg, table) == table \in DOMAIN cfg /\ cfg[table].id = 1

InitBoot ==
    /\ tokens = <<>>
    /\ token_stats = <<>>
    /\ tokens_id_seq = 1
    /\ now = 0
    /\ lastOp = Op("init", 0, NULL, "returned", NULL)
    /\ calls = [p \in Procs |->
                  [pc |-> "count", table |-> 1, inserted |-> {},
                   config_dict |-> ConfigDicts[((p - 1) % Len(ConfigDicts)) + 1]]]
    /\ tasks = <<>>
    /\ tasks_id_seq = 1
    /\ request_logs = <<>>
    /\ request_logs_id_seq = 1
    /\ pool = Some(1)
    /\ pools = <<"open">>
    /\ pool_calls = [p \in Procs |-> IdlePoolCall]
    /\ columns = AllColumns
    /\ config_rows = {}
    /\ mig = IdleMigration
    /\ config = <<>>
    /\ config_writes = 0
    /\ probe = NoProbe

BootFrame ==
    UNCHANGED <<tokens, token_stats, tokens_id_seq, now, lastOp, refVars,
                poolVars, columns, mig, config_writes, probe>>

\* The run goes on to the next table, or returns after the last.
NextTable(call) ==
    IF call.table = Len(ConfigTables)
    THEN [call EXCEPT !.pc = "returned"]
    ELSE [call EXCEPT !.pc = "count", !.table = @ + 1]

\* count = await conn.fetchval("SELECT COUNT(*) FROM <table>"); if count == 0:
CountRows(p) ==
    /\ calls[p].pc = "count"
    /\ calls' = [calls EXCEPT ![p] =
                    IF ConfigTables[calls[p].table] \in DOMAIN config
                    THEN NextTable(@)
                    ELSE [@ EXCEPT !.pc = "insert"]]
    /\ UNCHANGED <<config, config_rows>>
    /\ BootFrame

\* await conn.execute("INSERT INTO <table> (id, ...) VALUES (1, ...)")
InsertRow(p) ==
    /\ calls[p].pc = "insert"
    /\ LET table == ConfigTables[calls[p].table]
       IN  IF PrimaryKeyTaken(config, table)
           THEN /\ calls' = [calls EXCEPT ![p] = [@ EXCEPT !.pc = "raised"]]
                /\ UNCHANGED <<config, config_rows>>
           ELSE /\ config' = IF table \in DOMAIN config THEN config
                             ELSE config @@
                                  (table :> BootstrapRow(table,
                                               calls[p].config_dict, now))
                /\ config_rows' = config_rows \cup {table}
                /\ calls' = [calls EXCEPT ![p] =
                                NextTable([@ EXCEPT !.inserted =
                                                       @ \cup {table}])]
    /\ BootFrame

NextBoot ==
    \/ \E p \in Procs : CountRows(p)
    \/ \E p \in Procs : InsertRow(p)

SpecBoot == InitBoot /\ [][NextBoot]_vars

\* The runs that inserted a row into `table`: its rows, the tables having
\* started empty.
Inserters(table) == {p \in Procs : table \in calls[p].inserted}

Finished(pcs) == \A p \in Procs : calls[p].pc \in pcs

\* C38: however the runs interleave, once every run has ended each of the
\* eight config tables holds exactly one row, and at least one run has
\* returned, having gone through all eight tables.
C38_ConcurrentBootstrap ==
    Finished({"returned", "raised"}) =>
        /\ AllConfigRows(config)
        /\ \A i \in DOMAIN ConfigTables :
              Cardinality(Inserters(ConfigTables[i])) = 1
        /\ \E p \in Procs : calls[p].pc = "returned"

\* All runs have ended, one of them by the primary-key violation of its
\* INSERT into the last table, after inserting rows into earlier ones.
C38_Witness ==
    /\ Finished({"returned", "raised"})
    /\ \E p \in Procs : /\ calls[p].pc = "raised"
                        /\ calls[p].table = Len(ConfigTables)
                        /\ calls[p].inserted # {}


----------------------------------------------------------------------------
\* Writes addressed to a credential that has no row (SpecAbsent): callers
\* delete credentials, those that exist and those that do not, and address
\* every other write that names a credential id to ids that have no row,
\* because none was ever added under the id or because it has been deleted.

CredentialWrites ==
    {"update_token_usage", "update_token_status", "mark_token_expired",
     "update_token", "increment_image_count", "increment_video_count",
     "increment_error_count", "reset_error_count", "delete_token"}

\* The credential `token_id` has a row neither in tokens nor in token_stats.
NoRow(token_id) ==
    token_id \notin DOMAIN tokens /\ token_id \notin DOMAIN token_stats

NextAbsent ==
    \/ \E id \in AnyId : NoRow(id) /\ update_token_usage(id)
    \/ \E id \in AnyId, act \in BOOLEAN :
          NoRow(id) /\ update_token_status(id, act)
    \/ \E id \in AnyId : NoRow(id) /\ mark_token_expired(id)
    \/ \E id \in AnyId, a \in UpdateArgs : NoRow(id) /\ update_token(id, a)
    \/ \E id \in AnyId : NoRow(id) /\ increment_image_count(id)
    \/ \E id \in AnyId : NoRow(id) /\ increment_video_count(id)
    \/ \E id \in AnyId, inc \in BOOLEAN :
          NoRow(id) /\ increment_error_count(id, inc)
    \/ \E id \in AnyId : NoRow(id) /\ reset_error_count(id)
    \/ \E p \in Procs, id \in AnyId : DeleteTokenStats(p, id, "none")
    \/ \E p \in Procs : DeleteTokenRow(p)

SpecAbsent == InitStats /\ [][NextAbsent]_vars

tableVars == <<tokens, token_stats, tokens_id_seq, refVars>>

\* C40: a write addressed to a credential id that has no row does not
\* raise, and it leaves every table as it was: no step of such a write
\* changes tokens, token_stats, tasks or request_logs, so none creates a
\* row.
C40_AbsentIdNoOp ==
    /\ []((lastOp.op \in CredentialWrites /\ NoRow(lastOp.id))
            => lastOp.outcome # "raised")
    /\ [][(lastOp'.op \in CredentialWrites /\ NoRow(lastOp'.id))
            => UNCHANGED tableVars]_tableVars

\* update_token has returned after issuing its UPDATE for the id that has
\* no row, with a token value that a row of another id holds, among rows
\* that are all in place.
C40_Witness ==
    /\ lastOp.op = "update_token"
    /\ lastOp.id = MaxTokens + 1
    /\ lastOp.pre = NULL
    /\ lastOp.outcome = "returned"
    /\ lastOp.ret = Some(1)
    /\ lastOp.arg.token # NULL
    /\ \E id \in DOMAIN tokens : tokens[id].token = lastOp.arg.token[1]
    /\ DOMAIN tokens = Ids
    /\ DOMAIN token_stats = Ids

====
